---- MODULE Spec2Model ----
(***************************************************************************)
(* The write-request observability pipeline of the PostHog integration:    *)
(* PosthogInterceptor.intercept (posthog.controller.ts) and PosthogService *)
(* (posthog.service.ts).  One request travels through the interceptor; the *)
(* remote event store is the environment.                                  *)
(*                                                                         *)
(* JSON values are tagged records.  A string is its visible text s         *)
(* followed by pad further characters, so that payloads longer than the    *)
(* size thresholds can be written down.  The key order of objects and the  *)
(* escaping of characters by JSON.stringify are not modelled.              *)
(***************************************************************************)
EXTENDS Integers, Sequences, FiniteSets, TLC

----------------------------------------------------------------------------
(* JSON-like values                                                        *)

Undef == [t |-> "undef"]
Null == [t |-> "null"]
Str(s, pad) == [t |-> "str", s |-> s, pad |-> pad]
Num(n) == [t |-> "num", n |-> n]
Bool(b) == [t |-> "bool", b |-> b]
Obj(kv) == [t |-> "obj", kv |-> kv]
Arr(el) == [t |-> "arr", el |-> el]

\* the object o with its keys written in another order: the same keys and
\* values, a different JSON.stringify text
Reordered(o) == [t |-> "obj", kv |-> o.kv, ord |-> 1]

EmptyKV == [k \in {} |-> Null]
EmptyObj == Obj(EmptyKV)

\* JavaScript truthiness: !v is false exactly for these values
Truthy(v) ==
  CASE v.t = "undef" -> FALSE
    [] v.t = "null" -> FALSE
    [] v.t = "bool" -> v.b
    [] v.t = "num" -> v.n # 0
    [] v.t = "str" -> Len(v.s) + v.pad > 0
    [] v.t = "obj" -> TRUE
    [] v.t = "arr" -> TRUE

RECURSIVE NumLen(_)
NumLen(n) == IF n < 10 THEN 1 ELSE 1 + NumLen(n \div 10)

\* Object.keys(v || {}) for the values the pipeline meets
Keys(v) ==
  CASE v.t = "obj" -> DOMAIN v.kv
    [] v.t = "arr" -> {ToString(i - 1) : i \in DOMAIN v.el}
    [] v.t \in {"undef", "null", "num", "bool"} -> {}

\* v?.[k]
Get(v, k) ==
  CASE v.t = "obj" -> IF k \in DOMAIN v.kv THEN v.kv[k] ELSE Undef
    [] v.t = "arr" -> IF \E i \in DOMAIN v.el : ToString(i - 1) = k
                      THEN v.el[CHOOSE i \in DOMAIN v.el : ToString(i - 1) = k]
                      ELSE Undef
    [] v.t \in {"undef", "null", "num", "bool"} -> Undef

\* JSON.stringify(v).length
RECURSIVE JLen(_)
RECURSIVE JLenKeys(_, _)
RECURSIVE JLenSeq(_)
JLen(v) ==
  CASE v.t = "null" -> 4
    [] v.t = "bool" -> IF v.b THEN 4 ELSE 5
    [] v.t = "num" -> NumLen(v.n)
    [] v.t = "str" -> Len(v.s) + v.pad + 2
    [] v.t = "obj" -> 2 + JLenKeys(v.kv, DOMAIN v.kv)
    [] v.t = "arr" -> 2 + JLenSeq(v.el)
JLenKeys(kv, ks) ==
  IF ks = {} THEN 0
  ELSE LET k == CHOOSE x \in ks : TRUE
       IN Len(k) + 3 + JLen(kv[k])
          + (IF ks = {k} THEN 0 ELSE 1 + JLenKeys(kv, ks \ {k}))
JLenSeq(el) ==
  IF el = <<>> THEN 0
  ELSE JLen(Head(el)) + (IF Len(el) = 1 THEN 0 ELSE 1 + JLenSeq(Tail(el)))

\* outcome of a call: a returned value or a thrown exception
Ret(v) == [ok |-> TRUE, v |-> v]
Throw(e) == [ok |-> FALSE, e |-> e]

----------------------------------------------------------------------------
(* Redactor                                                                *)

REDACTED == Str("[REDACTED]", 0)

BODY_LIMIT == 1000
RESPONSE_LIMIT == 2000

InterceptorSensitiveFields == {"password", "token", "secret", "apiKey", "apikey"}
ServiceSensitiveFields == InterceptorSensitiveFields \cup {"access_token"}
InterceptorSensitiveHeaders == {"authorization", "cookie", "x-api-key"}
ServiceSensitiveHeaders == InterceptorSensitiveHeaders \cup {"x-session-id"}

\* { ...body }
Spread(body) == Obj([k \in Keys(body) |-> Get(body, k)])

\* for (field of sensitiveFields) if (sanitized[field]) sanitized[field] = '[REDACTED]'
Redact(fields, o) ==
  Obj([k \in DOMAIN o.kv |->
        IF k \in fields /\ Truthy(o.kv[k]) THEN REDACTED ELSE o.kv[k]])

\* JSON.parse(str.substring(0, limit) + '...'): a JSON text cut short and
\* followed by three dots is never a JSON text
ParseTruncated == Throw("SyntaxError")

sanitizeBodyWith(fields, body) ==
  IF ~Truthy(body) THEN Ret(Null)
  ELSE LET sanitized == Redact(fields, Spread(body))
       IN IF JLen(sanitized) > BODY_LIMIT THEN ParseTruncated ELSE Ret(sanitized)

Interceptor_sanitizeBody(body) == sanitizeBodyWith(InterceptorSensitiveFields, body)
Service_sanitizeBody(body) == sanitizeBodyWith(ServiceSensitiveFields, body)

\* String.prototype.toLowerCase, on the names that have upper-case letters
LowerOf ==
  ("Password" :> "password") @@ ("PASSWORD" :> "password") @@
  ("TOKEN" :> "token") @@ ("Secret" :> "secret") @@
  ("apiKey" :> "apikey") @@ ("APIKEY" :> "apikey") @@
  ("Access_Token" :> "access_token") @@
  ("Authorization" :> "authorization") @@ ("X-Api-Key" :> "x-api-key")

ToLowerCase(k) == IF k \in DOMAIN LowerOf THEN LowerOf[k] ELSE k

\* sensitiveHeaders.includes(key.toLowerCase())
sanitizeHeadersWith(names, headers) ==
  IF ~Truthy(headers) THEN Null
  ELSE Obj([k \in DOMAIN headers.kv |->
             IF ToLowerCase(k) \in names THEN REDACTED ELSE headers.kv[k]])

Interceptor_sanitizeHeaders(headers) == sanitizeHeadersWith(InterceptorSensitiveHeaders, headers)
Service_sanitizeHeaders(headers) == sanitizeHeadersWith(ServiceSensitiveHeaders, headers)

sanitizeResponse(data) ==
  IF ~Truthy(data) THEN Ret(Null)
  ELSE IF JLen(data) > RESPONSE_LIMIT
       THEN (IF ParseTruncated.ok
             THEN Ret(Obj([_truncated |-> Bool(TRUE), _size |-> Num(JLen(data)),
                           preview |-> ParseTruncated.v]))
             ELSE ParseTruncated)
       ELSE Ret(data)

----------------------------------------------------------------------------
(* Structural Differ                                                       *)

IsPlainObject(v) == v.t = "obj"

\* deepDiff(prev, curr): the diff is itself a JSON object; a key gets
\* { added }, { removed }, { previous, current } or a nested diff
RECURSIVE deepDiff(_, _)

\* as if a nested diff were kept even when it has no entries
deepDiffKeepingEmpty(prev, curr) ==
  LET allKeys == Keys(prev) \cup Keys(curr)
      nested(k) == deepDiff(Get(prev, k), Get(curr, k))
      differs(k) ==
        LET prevVal == Get(prev, k)
            currVal == Get(curr, k)
        IN IF prevVal = Undef /\ currVal # Undef THEN TRUE
           ELSE IF prevVal # Undef /\ currVal = Undef THEN TRUE
           ELSE IF prevVal # currVal
                THEN TRUE
                ELSE FALSE
      entry(k) ==
        LET prevVal == Get(prev, k)
            currVal == Get(curr, k)
        IN IF prevVal = Undef THEN Obj([added |-> currVal])
           ELSE IF currVal = Undef THEN Obj([removed |-> prevVal])
           ELSE IF IsPlainObject(prevVal) /\ IsPlainObject(currVal) THEN nested(k)
           ELSE Obj([previous |-> prevVal, current |-> currVal])
  IN Obj([k \in {x \in allKeys : differs(x)} |-> entry(k)])

deepDiff(prev, curr) ==
  LET allKeys == Keys(prev) \cup Keys(curr)
      nested(k) == deepDiff(Get(prev, k), Get(curr, k))
      differs(k) ==
        LET prevVal == Get(prev, k)
            currVal == Get(curr, k)
        IN IF prevVal = Undef /\ currVal # Undef THEN TRUE
           ELSE IF prevVal # Undef /\ currVal = Undef THEN TRUE
           ELSE IF prevVal # currVal
                THEN (IF IsPlainObject(prevVal) /\ IsPlainObject(currVal)
                      THEN DOMAIN nested(k).kv # {}
                      ELSE TRUE)
                ELSE FALSE
      entry(k) ==
        LET prevVal == Get(prev, k)
            currVal == Get(curr, k)
        IN IF prevVal = Undef THEN Obj([added |-> currVal])
           ELSE IF currVal = Undef THEN Obj([removed |-> prevVal])
           ELSE IF IsPlainObject(prevVal) /\ IsPlainObject(currVal) THEN nested(k)
           ELSE Obj([previous |-> prevVal, current |-> currVal])
  IN Obj([k \in {x \in allKeys : differs(x)} |-> entry(k)])

RECURSIVE JoinSemi(_)
JoinSemi(list) ==
  IF Len(list) = 1 THEN Head(list) ELSE Head(list) \o "; " \o JoinSemi(Tail(list))

\* the three-way comparison of one body in calculateChanges: the entry put
\* into changes (Undef when none) and the description pushed on changeList
BodyChange(prevBody, currBody, what) ==
  IF Truthy(prevBody) /\ Truthy(currBody)
  THEN LET d == deepDiff(prevBody, currBody)
       IN IF DOMAIN d.kv # {}
          THEN [entry |-> d, text |-> <<what \o " body changed">>]
          ELSE [entry |-> Undef, text |-> <<>>]
  ELSE IF Truthy(currBody) /\ ~Truthy(prevBody)
  THEN [entry |-> Obj([added |-> currBody]), text |-> <<what \o " body added">>]
  ELSE IF Truthy(prevBody) /\ ~Truthy(currBody)
  THEN [entry |-> Obj([removed |-> prevBody]), text |-> <<what \o " body removed">>]
  ELSE [entry |-> Undef, text |-> <<>>]

\* a previous call is NoPrevious (null) or a record with found = TRUE
NoPrevious == [found |-> FALSE]

calculateChanges(previous, current) ==
  IF ~previous.found
  THEN [hasChanges |-> FALSE, changes |-> EmptyObj,
        summary |-> "First call to this endpoint"]
  ELSE LET rq == BodyChange(previous.requestBody, current.requestBody, "Request")
           rs == BodyChange(previous.responseBody, current.responseBody, "Response")
           ks == (IF rq.entry # Undef THEN {"request_body"} ELSE {})
                 \cup (IF rs.entry # Undef THEN {"response_body"} ELSE {})
           changes == Obj([k \in ks |-> IF k = "request_body" THEN rq.entry ELSE rs.entry])
           changeList == rq.text \o rs.text
       IN [hasChanges |-> ks # {},
           changes |-> changes,
           summary |-> IF Len(changeList) > 0 THEN JoinSemi(changeList)
                       ELSE "No changes detected"]

----------------------------------------------------------------------------
(* Configuration (process.env).  A key is the sequence of its characters;  *)
(* the empty sequence is an unset (or empty) variable.                     *)

PLACEHOLDER_KEY ==
  <<"p","h","c","_","y","o","u","r","_","a","p","i","_","k","e","y","_","h","e","r","e">>

Digits == {"0", "1", "2", "3", "4", "5", "6", "7", "8", "9"}

\* process.env.POSTHOG_API_KEY || 'phc_your_api_key_here'
ApiKeyOrPlaceholder(e) ==
  IF e.POSTHOG_API_KEY # <<>> THEN e.POSTHOG_API_KEY ELSE PLACEHOLDER_KEY

\* the guard of track(): !apiKey || apiKey === 'phc_your_api_key_here'
IngestionConfigured(e) == ApiKeyOrPlaceholder(e) # PLACEHOLDER_KEY

\* positions where apiKey.match(/phc_([^_]+)/) can match
MatchStarts(k) ==
  {i \in 1..Len(k) :
     /\ i + 4 <= Len(k)
     /\ k[i] = "p" /\ k[i + 1] = "h" /\ k[i + 2] = "c" /\ k[i + 3] = "_"
     /\ k[i + 4] # "_"}

\* the capture group: the longest run of non-underscore characters from position i
RECURSIVE RunFrom(_, _)
RunFrom(k, i) ==
  IF i > Len(k) \/ k[i] = "_" THEN <<>> ELSE <<k[i]>> \o RunFrom(k, i + 1)

\* /^\d+$/.test(extracted)
IsNumeric(x) == Len(x) > 0 /\ \A i \in 1..Len(x) : x[i] \in Digits

\* as if whatever follows phc_ were taken for the project
getProjectIdGuessing(e, apiKey) ==
  IF e.POSTHOG_PROJECT_ID # <<>> THEN e.POSTHOG_PROJECT_ID
  ELSE IF MatchStarts(apiKey) # {}
       THEN LET i == CHOOSE j \in MatchStarts(apiKey) : \A m \in MatchStarts(apiKey) : j <= m
            IN RunFrom(apiKey, i + 4)
       ELSE <<>>

\* getProjectId(apiKey): <<>> stands for null
getProjectId(e, apiKey) ==
  IF e.POSTHOG_PROJECT_ID # <<>> THEN e.POSTHOG_PROJECT_ID
  ELSE IF MatchStarts(apiKey) # {}
       THEN LET i == CHOOSE j \in MatchStarts(apiKey) : \A m \in MatchStarts(apiKey) : j <= m
                extracted == RunFrom(apiKey, i + 4)
            IN IF IsNumeric(extracted) THEN extracted ELSE <<>>
       ELSE <<>>

----------------------------------------------------------------------------
(* Event Store Client: the pure parts of getPreviousCallFromPostHog and    *)
(* tryEventsApiEndpoint                                                    *)

\* a || b || ... on strings: the first non-empty one
FirstTruthy(xs) ==
  IF \E i \in 1..Len(xs) : xs[i] # ""
  THEN xs[CHOOSE i \in 1..Len(xs) : xs[i] # "" /\ \A j \in 1..(i - 1) : xs[j] = ""]
  ELSE ""

\* new Date(x): a date written as "invalid" does not parse (Invalid Date);
\* "now" is Date.now()
NewDate(x) == IF x = "invalid" THEN "invalid" ELSE "valid"

\* as if the ingestion key came first
LookupStartPreferringIngestionKey(e) ==
  LET personalApiKey == e.POSTHOG_PERSONAL_API_KEY
      projectApiKey == e.POSTHOG_API_KEY
      apiKey == IF projectApiKey # <<>> THEN projectApiKey ELSE personalApiKey
      degraded == IF personalApiKey = <<>> /\ projectApiKey # <<>>
                  THEN <<"warn:project-key-for-query">> ELSE <<>>
      projectId == getProjectId(e, apiKey)
  IN IF apiKey = <<>> \/ apiKey = PLACEHOLDER_KEY
     THEN [fetch |-> FALSE, logs |-> <<"warn:no-key">>]
     ELSE IF projectId = <<>>
     THEN [fetch |-> FALSE, logs |-> degraded \o <<"warn:no-project-id">>]
     ELSE [fetch |-> TRUE, logs |-> degraded,
           req |-> [tier |-> "A", projectId |-> projectId, auth |-> apiKey]]

\* the part of getPreviousCallFromPostHog before its first await: the key
\* and project checks; fetch = FALSE means it returns null at once
LookupStart(e) ==
  LET personalApiKey == e.POSTHOG_PERSONAL_API_KEY
      projectApiKey == e.POSTHOG_API_KEY
      apiKey == IF personalApiKey # <<>> THEN personalApiKey ELSE projectApiKey
      degraded == IF personalApiKey = <<>> /\ projectApiKey # <<>>
                  THEN <<"warn:project-key-for-query">> ELSE <<>>
      projectId == getProjectId(e, apiKey)
  IN IF apiKey = <<>> \/ apiKey = PLACEHOLDER_KEY
     THEN [fetch |-> FALSE, logs |-> <<"warn:no-key">>]
     ELSE IF projectId = <<>>
     THEN [fetch |-> FALSE, logs |-> degraded \o <<"warn:no-project-id">>]
     ELSE [fetch |-> TRUE, logs |-> degraded,
           req |-> [tier |-> "A", projectId |-> projectId, auth |-> apiKey]]

\* queryBody of getPreviousCallFromPostHog: the structured query of tier A
queryBody(method, path) ==
  [event |-> "api_write_request",
   where |-> [method |-> method, path |-> path],
   orderBy |-> "timestamp DESC",
   limit |-> 1]

\* queryParams of tryEventsApiEndpoint: the query string of tier B; "" for
\* a parameter that is not appended
queryParams(method, path, userId) ==
  [event |-> "api_write_request",
   limit |-> 1,
   orderBy |-> "-timestamp",
   properties |-> [method |-> method, path |-> path],
   distinct_id |-> IF userId # "" /\ userId # "anonymous" THEN userId ELSE ""]

\* the request of tier A: POST {host}/api/projects/{projectId}/query/
QueryApiRequest(req, method, path) ==
  [tier |-> "A", projectId |-> req.projectId, auth |-> req.auth,
   query |-> queryBody(method, path)]

\* the request of tier B: GET {host}/api/projects/{projectId}/events/?...
EventsApiRequest(sent, method, path, userId) ==
  [tier |-> "B", projectId |-> sent.projectId, auth |-> sent.auth,
   query |-> queryParams(method, path, userId)]

\* what the remote store holds: events in the order of their timestamps
NoEvent == [event |-> "none"]
StoredEvents ==
  [event : {"api_write_request"}, method : {"POST", "PUT"}, path : {"/items"},
   distinct_id : {"7", "8"}]
StoreContents ==
  {<<>>} \cup {<<a>> : a \in StoredEvents} \cup {<<a, b>> : a, b \in StoredEvents}

\* the last of the events of the store at the positions hits: ORDER BY
\* timestamp DESC, LIMIT 1
MostRecent(store, hits) ==
  IF hits = {} THEN NoEvent
  ELSE store[CHOOSE i \in hits : \A j \in hits : j <= i]

\* the event tier A's query selects: event name and the two where clauses
SelectedByQueryApi(store, q) ==
  LET Passes(ev) == /\ ev.event = q.event
                    /\ ev.method = q.where.method
                    /\ ev.path = q.where.path
  IN MostRecent(store, {i \in DOMAIN store : Passes(store[i])})

\* the event tier B's query string selects: event name, the two property
\* filters, and distinct_id when it was appended
SelectedByEventsApi(store, q) ==
  LET Passes(ev) == /\ ev.event = q.event
                    /\ ev.method = q.properties.method
                    /\ ev.path = q.properties.path
                    /\ q.distinct_id # "" => ev.distinct_id = q.distinct_id
  IN MostRecent(store, {i \in DOMAIN store : Passes(store[i])})

\* the record built from the first row of the structured query's result
RecordFromQueryRow(row) ==
  LET eventData == row.ev
      properties == eventData.properties
  IN [found |-> TRUE,
      requestBody |-> properties.request_body,
      responseBody |-> properties.response_body,
      timestamp |-> NewDate(FirstTruthy(<<properties.timestamp, eventData.timestamp, "now">>)),
      eventId |-> eventData.uuid]

\* the record built from the first event of the list endpoint's result; a
\* row that is an array has no properties, timestamp or id of its own
RecordFromEvent(row) ==
  IF row.wrapped
  THEN [found |-> TRUE, requestBody |-> Undef, responseBody |-> Undef,
        timestamp |-> NewDate("now"), eventId |-> ""]
  ELSE [found |-> TRUE,
        requestBody |-> row.ev.properties.request_body,
        responseBody |-> row.ev.properties.response_body,
        timestamp |-> NewDate(FirstTruthy(<<row.ev.timestamp, "now">>)),
        eventId |-> row.ev.uuid]

\* as if an empty result of the structured query led to the list endpoint
AfterQueryApiFallingBackOnEmpty(resp) ==
  CASE resp.kind = "network_error" ->
         [next |-> "return", prev |-> NoPrevious, logs |-> <<"error:query">>]
    [] resp.kind = "not_ok" ->
         IF resp.readable
         THEN [next |-> "B", prev |-> NoPrevious, logs |-> <<"warn:query-api-failed">>]
         ELSE [next |-> "return", prev |-> NoPrevious, logs |-> <<"error:query">>]
    [] resp.kind = "malformed" ->
         [next |-> "return", prev |-> NoPrevious, logs |-> <<"error:query">>]
    [] resp.kind = "json" ->
         IF resp.data.fmt = "results" /\ Len(resp.data.list) > 0
         THEN [next |-> "return", prev |-> RecordFromQueryRow(resp.data.list[1]),
               logs |-> <<"log:found">>]
         ELSE [next |-> "B", prev |-> NoPrevious, logs |-> <<"warn:no-events">>]

\* getPreviousCallFromPostHog after `await fetch`: what it does with the
\* answer of the structured query.  next = "B": tryEventsApiEndpoint is called
AfterQueryApi(resp) ==
  CASE resp.kind = "network_error" ->
         [next |-> "return", prev |-> NoPrevious, logs |-> <<"error:query">>]
    [] resp.kind = "not_ok" ->
         IF resp.readable
         THEN [next |-> "B", prev |-> NoPrevious, logs |-> <<"warn:query-api-failed">>]
         ELSE [next |-> "return", prev |-> NoPrevious, logs |-> <<"error:query">>]
    [] resp.kind = "malformed" ->
         [next |-> "return", prev |-> NoPrevious, logs |-> <<"error:query">>]
    [] resp.kind = "json" ->
         IF resp.data.fmt = "results" /\ Len(resp.data.list) > 0
         THEN [next |-> "return", prev |-> RecordFromQueryRow(resp.data.list[1]),
               logs |-> <<"log:found">>]
         ELSE [next |-> "return", prev |-> NoPrevious, logs |-> <<"warn:no-events">>]

\* tryEventsApiEndpoint after `await fetch`
AfterEventsApi(resp) ==
  CASE resp.kind = "network_error" -> [prev |-> NoPrevious, logs |-> <<"error:events">>]
    [] resp.kind = "not_ok" ->
         IF resp.readable
         THEN [prev |-> NoPrevious, logs |-> <<"warn:events-api-failed">>]
         ELSE [prev |-> NoPrevious, logs |-> <<"error:events">>]
    [] resp.kind = "malformed" -> [prev |-> NoPrevious, logs |-> <<"error:events">>]
    [] resp.kind = "json" ->
         LET events == IF resp.data.fmt \in {"results", "array", "events"}
                       THEN resp.data.list ELSE <<>>
         IN IF Len(events) > 0
            THEN [prev |-> RecordFromEvent(events[1]), logs |-> <<"log:found">>]
            ELSE [prev |-> NoPrevious, logs |-> <<>>]

----------------------------------------------------------------------------
(* Write-Request Tracker and Error Funnel: the properties of the events.   *)
(* Properties are a function from property names to JSON values; clock     *)
(* readings (timestamp, duration_ms) and the url are left out.             *)

Opt(present, name, v) == IF present THEN name :> v ELSE EmptyKV

\* previousCall.timestamp.toISOString()
ToISOString(d) == IF d = "invalid" THEN Throw("RangeError") ELSE Ret(Str("<iso date>", 0))

\* as if the branch without changes always set is_first_call
ChangeAnalysisAlwaysFirst(changes, previousCall) ==
  IF changes.hasChanges
  THEN [changes |-> changes.changes,
        change_summary |-> Str(changes.summary, 0),
        is_first_call |-> Bool(FALSE)]
  ELSE [is_first_call |-> Bool(TRUE)]

\* lines 612-619 of trackWriteRequestWithComparison: the change analysis
ChangeAnalysis(changes, previousCall) ==
  IF changes.hasChanges
  THEN [changes |-> changes.changes,
        change_summary |-> Str(changes.summary, 0),
        is_first_call |-> Bool(FALSE)]
  ELSE [is_first_call |-> Bool(~previousCall.found)]

\* trackWriteRequestWithComparison after the lookup: the properties handed
\* to track(), or the exception that leaves the function
trackWriteProperties(details, previousCall) ==
  LET changes == calculateChanges(previousCall,
                   [requestBody |-> details.requestBody,
                    responseBody |-> details.responseBody])
      hasReq == Truthy(details.requestBody)
      hasRes == Truthy(details.responseBody)
      reqB == Service_sanitizeBody(details.requestBody)
      resB == sanitizeResponse(details.responseBody)
      prevReq == Service_sanitizeBody(previousCall.requestBody)
      prevRes == sanitizeResponse(previousCall.responseBody)
      prevTs == ToISOString(previousCall.timestamp)
      hasUser == details.userId # "" /\ details.userId # "anonymous"
  IN IF hasReq /\ ~reqB.ok THEN reqB
     ELSE IF hasRes /\ ~resB.ok THEN resB
     ELSE IF previousCall.found /\ ~prevReq.ok THEN prevReq
     ELSE IF previousCall.found /\ ~prevRes.ok THEN prevRes
     ELSE IF previousCall.found /\ ~prevTs.ok THEN prevTs
     ELSE Ret(
       [method |-> Str(details.method, 0),
        path |-> Str(details.path, 0),
        status_code |-> Num(details.statusCode)]
       @@ Opt(hasReq, "request_body", reqB.v)
       @@ Opt(hasRes, "response_body", resB.v)
       @@ (IF previousCall.found
           THEN [previous_call |->
                   Obj([request_body |-> prevReq.v,
                        response_body |-> prevRes.v,
                        timestamp |-> prevTs.v,
                        event_id |-> Str(previousCall.eventId, 0)]),
                 previous_request_body |-> prevReq.v,
                 previous_response_body |-> prevRes.v,
                 previous_timestamp |-> prevTs.v]
                @@ Opt(previousCall.eventId # "", "previous_event_id",
                       Str(previousCall.eventId, 0))
           ELSE EmptyKV)
       @@ ChangeAnalysis(changes, previousCall)
       @@ Opt(details.sessionId # "", "$session_id", Str(details.sessionId, 0))
       @@ Opt(hasUser, "user_id", Str(details.userId, 0)))

\* as if the link never named the project
ReplayUrlWithoutProject(projectId, sessionId) ==
  [t |-> "url", path |-> <<"replay", sessionId>>]

\* the replay link: host, then the path segments
ReplayUrl(projectId, sessionId) ==
  IF projectId # <<>>
  THEN [t |-> "url", path |-> <<"project", projectId, "replay", sessionId>>]
  ELSE [t |-> "url", path |-> <<"replay", sessionId>>]

\* trackError up to its call of track(): the properties, or the exception
trackErrorProperties(e, details) ==
  LET errorType == IF details.errorType # "" THEN details.errorType ELSE "backend_error"
      ctx == details.context
      hasHeaders == Truthy(ctx.requestHeaders)
      hasBody == Truthy(ctx.requestBody)
      sBody == Service_sanitizeBody(ctx.requestBody)
      sanitizedContext ==
        [ctx EXCEPT !.requestHeaders =
                       IF hasHeaders THEN Service_sanitizeHeaders(@) ELSE @,
                    !.requestBody = IF hasBody THEN sBody.v ELSE @]
      projectId == getProjectId(e, ApiKeyOrPlaceholder(e))
      hasUser == details.userId # "" /\ details.userId # "anonymous"
  IN IF hasBody /\ ~sBody.ok THEN sBody
     ELSE Ret(
       [error_name |-> Str(details.errorName, 0),
        error_message |-> Str(details.errorMessage, 0),
        error_type |-> Str(errorType, 0)]
       @@ Opt(Truthy(details.errorStack), "error_stack", details.errorStack)
       @@ [context |-> sanitizedContext]
       @@ (IF details.sessionId # ""
           THEN ("$session_id" :> Str(details.sessionId, 0))
                @@ [session_replay_url |-> ReplayUrl(projectId, details.sessionId)]
                @@ ("$error_with_session_replay" :> Bool(TRUE))
           ELSE EmptyKV)
       @@ Opt(hasUser, "user_id", Str(details.userId, 0)))

----------------------------------------------------------------------------
(* Inputs                                                                  *)

\* the longest result list the remote store answers with
MaxResults == 1

KEY_PLAIN == <<"p","h","c","_","a","b","c">>
KEY_NUMERIC == <<"p","h","c","_","4","2","_","x">>
KEY_PERSONAL == <<"p","h","x","_","k","1">>
PROJECT_42 == <<"4","2">>

Envs ==
  [POSTHOG_API_KEY : {<<>>, PLACEHOLDER_KEY, KEY_PLAIN, KEY_NUMERIC},
   POSTHOG_PERSONAL_API_KEY : {<<>>, KEY_PERSONAL},
   POSTHOG_PROJECT_ID : {<<>>, PROJECT_42}]

Methods == {"POST", "PUT", "PATCH", "GET", "DELETE", "HEAD", "OPTIONS"}

BODY_ITEM == Obj([name |-> Str("New Item", 0)])
BODY_OLD == Obj([name |-> Str("Old Item", 0)])
\* serializes to more than BODY_LIMIT characters
BODY_BIG == Obj([name |-> Str("x", 1200)])
\* serializes to exactly BODY_LIMIT characters and holds a short access_token
BODY_EDGE == Obj([access_token |-> Str("a", 0), data |-> Str("", 970)])
RequestBodies == {Undef, BODY_ITEM, BODY_BIG, BODY_EDGE}

HEADERS_PLAIN == Obj("content-type" :> Str("application/json", 0))
HEADERS_SESSION == Obj(("content-type" :> Str("application/json", 0))
                       @@ ("x-session-id" :> Str("s1", 0)))
RequestHeaders == {HEADERS_PLAIN, HEADERS_SESSION}

\* the browser side: what getSessionId() returns ("" for null), the
\* Authorization of getAuthHeader() ("" for none), and the headers the
\* caller of fetch passes in its options (Undef for none)
ClientSessionIds == {"", "s1"}
ClientAuthorizations == {"", "Bearer t"}
ClientOptionHeaders == {Undef, HEADERS_PLAIN}

\* headers.set(name, value) on a Headers object
HeadersSet(h, name, value) == Obj((name :> Str(value, 0)) @@ h.kv)

\* the headers the wrapped window.fetch sends: new Headers(options.headers
\* || {}), X-Session-ID if there is a session id, Authorization if the user
\* is logged in (Headers keeps names in lower case)
wrappedFetchHeaders(optionHeaders, sessionId, authorization) ==
  LET h0 == IF Truthy(optionHeaders) THEN optionHeaders ELSE EmptyObj
      h1 == IF sessionId # "" THEN HeadersSet(h0, "x-session-id", sessionId) ELSE h0
  IN IF authorization # "" THEN HeadersSet(h1, "authorization", authorization) ELSE h1

Users == {"anonymous", "7"}

Requests ==
  [method : Methods, path : {"/items"}, body : RequestBodies,
   headers : RequestHeaders, userId : Users]

RESP_ITEM == Obj([id |-> Num(1), name |-> Str("New Item", 0)])
RESP_OLD == Obj([id |-> Num(1), name |-> Str("Old Item", 0)])
\* serializes to more than RESPONSE_LIMIT characters
RESP_BIG == Obj([id |-> Num(1), blob |-> Str("", 2100)])
HandlerValues == {Undef, RESP_ITEM, RESP_BIG}

HandlerErrors ==
  {[name |-> "NotFoundException", message |-> "Item not found", status |-> 404,
    stack |-> Str("NotFoundException: Item not found", 1500)],
   [name |-> "", message |-> "boom", status |-> 0, stack |-> Undef]}

SYNTAX_ERROR ==
  [name |-> "SyntaxError", message |-> "Unexpected token . in JSON", status |-> 0,
   stack |-> Str("SyntaxError", 200)]
RANGE_ERROR ==
  [name |-> "RangeError", message |-> "Invalid time value", status |-> 0,
   stack |-> Str("RangeError", 200)]
ErrorOf(e) == IF e = "RangeError" THEN RANGE_ERROR ELSE SYNTAX_ERROR

\* events the remote store may hold for the endpoint
StoreEvent(req, res, pts, ts, id) ==
  [properties |-> [request_body |-> req, response_body |-> res, timestamp |-> pts],
   timestamp |-> ts, uuid |-> id]
StoreEvents ==
  {StoreEvent(BODY_ITEM, RESP_ITEM, "2025-12-05T09:00:00Z", "2025-12-05T09:00:01Z", "e1"),
   StoreEvent(BODY_OLD, RESP_OLD, "2025-12-05T09:00:00Z", "", "e2"),
   StoreEvent(Undef, Undef, "", "2025-12-05T09:00:01Z", ""),
   StoreEvent(BODY_ITEM, RESP_ITEM, "invalid", "invalid", "e4"),
   StoreEvent(BODY_BIG, RESP_ITEM, "2025-12-05T09:00:00Z", "", "e5")}

\* a row is the event itself or (structured query) an array around it
Rows ==
  {[wrapped |-> FALSE, ev |-> e] : e \in StoreEvents}
  \cup {[wrapped |-> TRUE, ev |-> e] :
          e \in {x \in StoreEvents : x.uuid = "e1"}}
RECURSIVE SeqsUpTo(_, _)
SeqsUpTo(S, n) ==
  IF n = 0 THEN {<<>>}
  ELSE LET shorter == SeqsUpTo(S, n - 1)
       IN shorter \cup {Append(q, x) : q \in {r \in shorter : Len(r) = n - 1}, x \in S}

\* answers of the remote store to one fetch
StoreResponses ==
  {[kind |-> "network_error"], [kind |-> "malformed"]}
  \cup {[kind |-> "not_ok", readable |-> b] : b \in BOOLEAN}
  \cup {[kind |-> "json", data |-> [fmt |-> "none", list |-> <<>>]]}
  \cup {[kind |-> "json", data |-> [fmt |-> f, list |-> l]] :
          f \in {"results", "events"}, l \in SeqsUpTo(Rows, MaxResults)}

----------------------------------------------------------------------------
(* State                                                                   *)

VARIABLES
  env,            \* process.env, fixed for the run
  request,        \* the inbound request
  pc,             \* where the request is: intercept, handler, respond, done
  body,           \* intercept's const body (sanitized request body)
  headers,        \* intercept's const headers (sanitized request headers)
  handlerResult,  \* what next.handle() produced
  outcome,        \* the notification the tap operator passes on
  delivered,      \* what the HTTP caller has received
  task,           \* the promise of the async tap next callback
  details,        \* the argument of trackWriteRequestWithComparison
  lookup,         \* getPreviousCallFromPostHog: none, running, settled
  previousCall,   \* what the lookup resolved to
  net,            \* the fetch in flight and the store's answer to it
  fetches,        \* the requests sent to the remote store, in order
  captured,       \* the events handed to client.capture, in order
  eventLog,       \* PosthogService.eventLog
  logs,           \* lines written to the logger, in order
  inflight,       \* several requests in flight at once: where each one is
  args,           \* the arguments of a direct call of one function
  result,         \* what that call returned
  page            \* the browser page: its modules' variables and what it did

vars == <<env, request, pc, body, headers, handlerResult, outcome, delivered,
          task, details, lookup, previousCall, net, fetches, captured,
          eventLog, logs, inflight, args, result, page>>

MAX_LOG_SIZE == 100

Nothing == [kind |-> "none"]
Value(v) == [kind |-> "value", v |-> v]
Error(e) == [kind |-> "error", e |-> e]

NoDetails == [started |-> FALSE]
Idle == [st |-> "idle"]
NoCall == [fn |-> "none"]
NoPage == [open |-> FALSE]

Init ==
  /\ env \in Envs
  /\ request \in Requests
  /\ pc = "intercept"
  /\ body = Undef
  /\ headers = Undef
  /\ handlerResult = Nothing
  /\ outcome = Nothing
  /\ delivered = Nothing
  /\ task = "none"
  /\ details = NoDetails
  /\ lookup = "none"
  /\ previousCall = NoPrevious
  /\ net = Idle
  /\ fetches = <<>>
  /\ captured = <<>>
  /\ eventLog = <<>>
  /\ logs = <<>>
  /\ inflight = <<>>
  /\ args = NoCall
  /\ result = NoCall
  /\ page = NoPage

\* as if the interceptor never read the header
SessionIdOfNoHeader(h) == ""

\* request.headers['x-session-id'] || undefined ("" stands for undefined)
SessionIdOf(h) ==
  IF "x-session-id" \in DOMAIN h.kv /\ Truthy(h.kv["x-session-id"])
  THEN h.kv["x-session-id"].s ELSE ""

\* as if DELETE were tracked like the other methods that change data
shouldTrackWithDelete(method) == method \in {"POST", "PUT", "PATCH", "DELETE"}

\* ['POST', 'PUT', 'PATCH'].includes(method)
shouldTrack(method) == method \in {"POST", "PUT", "PATCH"}

\* as if a capture that threw were tried a second time
tryCaptureRetrying(eventData, lg, clientThrows) ==
  /\ captured' = IF clientThrows THEN captured \o <<eventData, eventData>>
                 ELSE Append(captured, eventData)
  /\ logs' = Append(lg, IF clientThrows THEN "error:capture-failed" ELSE "log:event-sent")

\* the try block of track: client.capture(eventData) is called once; when
\* it throws (clientThrows) the catch logs the failure, else the success is
\* logged
tryCapture(eventData, lg, clientThrows) ==
  /\ captured' = Append(captured, eventData)
  /\ logs' = Append(lg, IF clientThrows THEN "error:capture-failed" ELSE "log:event-sent")

\* as if the log kept its first MAX_LOG_SIZE entries and dropped the newest
trackKeepingOldest(distinctId, eventName, properties, lg, clientThrows) ==
  IF ~IngestionConfigured(env)
  THEN /\ logs' = lg
       /\ UNCHANGED <<captured, eventLog>>
  ELSE /\ tryCapture([distinctId |-> distinctId, event |-> eventName,
                      properties |-> properties], lg, clientThrows)
       /\ LET pushed == Append(eventLog,
                 [distinctId |-> distinctId, eventName |-> eventName,
                  properties |-> properties])
          IN eventLog' = IF Len(pushed) > MAX_LOG_SIZE
                         THEN SubSeq(pushed, 1, MAX_LOG_SIZE)
                         ELSE pushed

\* track(distinctId, eventName, properties); lg is what the caller has
\* written to the logger so far, clientThrows whether client.capture throws
track(distinctId, eventName, properties, lg, clientThrows) ==
  IF ~IngestionConfigured(env)
  THEN /\ logs' = lg
       /\ UNCHANGED <<captured, eventLog>>
  ELSE /\ tryCapture([distinctId |-> distinctId, event |-> eventName,
                      properties |-> properties], lg, clientThrows)
       /\ LET pushed == Append(eventLog,
                 [distinctId |-> distinctId, eventName |-> eventName,
                  properties |-> properties])
          IN eventLog' = IF Len(pushed) > MAX_LOG_SIZE
                         THEN SubSeq(pushed, Len(pushed) - MAX_LOG_SIZE + 1, Len(pushed))
                         ELSE pushed

----------------------------------------------------------------------------
(* PosthogInterceptor.intercept                                            *)

\* intercept() up to next.handle(): an exception of sanitizeBody leaves
\* intercept before the handler is invoked and becomes the response
Intercept ==
  /\ pc = "intercept"
  /\ LET b == Interceptor_sanitizeBody(request.body)
     IN IF b.ok
        THEN /\ body' = b.v
             /\ headers' = Interceptor_sanitizeHeaders(request.headers)
             /\ pc' = "handler"
             /\ UNCHANGED outcome
        ELSE /\ outcome' = Error(ErrorOf(b.e))
             /\ pc' = "respond"
             /\ UNCHANGED <<body, headers>>
  /\ UNCHANGED <<inflight, args, result, env, request, handlerResult, delivered, task, details, lookup,
                 previousCall, net, fetches, captured, eventLog, logs>>
  /\ UNCHANGED page

\* the argument the tap next callback gives to trackWriteRequestWithComparison
WriteDetails(req, requestBody, responseBody) ==
  [started |-> TRUE,
   method |-> req.method,
   path |-> req.path,
   requestBody |-> requestBody,
   responseBody |-> responseBody,
   statusCode |-> 200,
   userId |-> req.userId,
   sessionId |-> SessionIdOf(req.headers)]

\* the handler returns v; the tap next callback runs up to its first await
HandlerSucceeds(v) ==
  /\ pc = "handler"
  /\ handlerResult' = Value(v)
  /\ outcome' = Value(v)
  /\ pc' = "respond"
  /\ IF ~shouldTrack(request.method)
     THEN /\ task' = "resolved"
          /\ UNCHANGED <<details, lookup, previousCall, net, fetches, logs>>
     ELSE LET sr == sanitizeResponse(v)
              start == LookupStart(env)
          IN IF ~sr.ok
             THEN /\ task' = "rejected"
                  /\ UNCHANGED <<details, lookup, previousCall, net, fetches, logs>>
             ELSE /\ task' = "running"
                  /\ details' = WriteDetails(request, body, sr.v)
                  /\ logs' = logs \o start.logs
                  /\ previousCall' = NoPrevious
                  /\ IF start.fetch
                     THEN /\ lookup' = "running"
                          /\ net' = [st |-> "pending", tier |-> "A"]
                          /\ fetches' = Append(fetches,
                                QueryApiRequest(start.req, request.method, request.path))
                     ELSE /\ lookup' = "settled"
                          /\ UNCHANGED <<net, fetches>>
  /\ UNCHANGED <<inflight, args, result, env, request, body, headers, delivered, captured, eventLog>>
  /\ UNCHANGED page

\* error.stack?.substring(0, 1000)
Substring1000(stack) ==
  IF stack = Undef THEN Undef
  ELSE IF Len(stack.s) + stack.pad > 1000 THEN Str(stack.s, 1000 - Len(stack.s))
  ELSE stack

\* the argument the tap error callback gives to trackError, for request req
\* with sanitized body and headers
ErrorDetailsOf(req, requestBody, requestHeaders, err) ==
  [errorName |-> IF err.name # "" THEN err.name ELSE "Error",
   errorMessage |-> err.message,
   errorStack |-> Substring1000(err.stack),
   userId |-> req.userId,
   sessionId |-> SessionIdOf(req.headers),
   errorType |-> "",
   context |-> [method |-> req.method,
                path |-> req.path,
                requestBody |-> requestBody,
                requestHeaders |-> requestHeaders,
                statusCode |-> IF err.status # 0 THEN err.status ELSE 500]]

ErrorDetails(err) == ErrorDetailsOf(request, body, headers, err)

\* as if the handler's observable could fail after it gave its value
HandlerFailsAfterValue(err) ==
  /\ pc \in {"handler", "respond"}
  /\ handlerResult' = Error(err)
  /\ pc' = "respond"
  /\ LET d == ErrorDetails(err)
         r == trackErrorProperties(env, d)
     IN IF r.ok
        THEN /\ \E clientThrows \in BOOLEAN :
                  track(d.userId, "error_occurred", r.v,
                        IF d.sessionId # "" /\ getProjectId(env, ApiKeyOrPlaceholder(env)) = <<>>
                        THEN Append(logs, "warn:no-project-id-for-replay") ELSE logs,
                        clientThrows)
             /\ outcome' = Error(err)
        ELSE /\ outcome' = Error(ErrorOf(r.e))
             /\ UNCHANGED <<captured, eventLog, logs>>
  /\ UNCHANGED <<inflight, args, result, env, request, body, headers, delivered, task, details, lookup,
                 previousCall, net, fetches>>
  /\ UNCHANGED page

\* the handler fails with err; the tap error callback calls trackError.  An
\* exception thrown by the callback replaces err in the error notification
HandlerFails(err) ==
  /\ pc = "handler"
  /\ handlerResult' = Error(err)
  /\ pc' = "respond"
  /\ LET d == ErrorDetails(err)
         r == trackErrorProperties(env, d)
     IN IF r.ok
        THEN /\ \E clientThrows \in BOOLEAN :
                  track(d.userId, "error_occurred", r.v,
                        IF d.sessionId # "" /\ getProjectId(env, ApiKeyOrPlaceholder(env)) = <<>>
                        THEN Append(logs, "warn:no-project-id-for-replay") ELSE logs,
                        clientThrows)
             /\ outcome' = Error(err)
        ELSE /\ outcome' = Error(ErrorOf(r.e))
             /\ UNCHANGED <<captured, eventLog, logs>>
  /\ UNCHANGED <<inflight, args, result, env, request, body, headers, delivered, task, details, lookup,
                 previousCall, net, fetches>>
  /\ UNCHANGED page

\* as if the notification were held back until the tracking task is over
ResponseReadyAfterTask == pc = "respond" /\ task # "running"

\* the notification has left the tap operator; nothing of the tracking
\* task is awaited before it is passed on
ResponseReady == pc = "respond"

Deliver ==
  /\ ResponseReady
  /\ delivered' = outcome
  /\ pc' = "done"
  /\ UNCHANGED <<inflight, args, result, env, request, body, headers, handlerResult, outcome, task,
                 details, lookup, previousCall, net, fetches, captured,
                 eventLog, logs>>
  /\ UNCHANGED page

----------------------------------------------------------------------------
(* The remote store and the continuation of the tracking task              *)

\* the remote store answers the fetch in flight (it need not ever do so)
StoreAnswers(resp) ==
  /\ net.st = "pending"
  /\ net' = [st |-> "answered", tier |-> net.tier, resp |-> resp]
  /\ UNCHANGED <<inflight, args, result, env, request, pc, body, headers, handlerResult, outcome,
                 delivered, task, details, lookup, previousCall, fetches,
                 captured, eventLog, logs>>
  /\ UNCHANGED page

\* getPreviousCallFromPostHog resumes with the answer of the structured query
QueryApiAnswered ==
  /\ net.st = "answered"
  /\ net.tier = "A"
  /\ LET r == AfterQueryApi(net.resp)
         sent == fetches[Len(fetches)]
     IN /\ logs' = logs \o r.logs
        /\ IF r.next = "B"
           THEN /\ net' = [st |-> "pending", tier |-> "B"]
                /\ fetches' = Append(fetches,
                      EventsApiRequest(sent, details.method, details.path, details.userId))
                /\ UNCHANGED <<lookup, previousCall>>
           ELSE /\ net' = Idle
                /\ lookup' = "settled"
                /\ previousCall' = r.prev
                /\ UNCHANGED fetches
  /\ UNCHANGED <<inflight, args, result, env, request, pc, body, headers, handlerResult, outcome,
                 delivered, task, details, captured, eventLog>>
  /\ UNCHANGED page

\* tryEventsApiEndpoint resumes with the answer of the list endpoint
EventsApiAnswered ==
  /\ net.st = "answered"
  /\ net.tier = "B"
  /\ LET r == AfterEventsApi(net.resp)
     IN /\ logs' = logs \o r.logs
        /\ net' = Idle
        /\ lookup' = "settled"
        /\ previousCall' = r.prev
  /\ UNCHANGED <<inflight, args, result, env, request, pc, body, headers, handlerResult, outcome,
                 delivered, task, details, fetches, captured, eventLog>>
  /\ UNCHANGED page

\* trackWriteRequestWithComparison resumes after `await getPreviousCall...`:
\* diff, build the properties, track.  An exception rejects the task
TrackWriteFinish ==
  /\ task = "running"
  /\ lookup = "settled"
  /\ LET r == trackWriteProperties(details, previousCall)
         lg == IF previousCall.found THEN logs ELSE Append(logs, "warn:no-previous-call")
     IN IF r.ok
        THEN /\ \E clientThrows \in BOOLEAN :
                  track(details.userId, "api_write_request", r.v, lg, clientThrows)
             /\ task' = "resolved"
        ELSE /\ task' = "rejected"
             /\ logs' = lg
             /\ UNCHANGED <<captured, eventLog>>
  /\ UNCHANGED <<inflight, args, result, env, request, pc, body, headers, handlerResult, outcome,
                 delivered, details, lookup, previousCall, net, fetches>>
  /\ UNCHANGED page

Next ==
  \/ Intercept
  \/ \E v \in HandlerValues : HandlerSucceeds(v)
  \/ \E err \in HandlerErrors : HandlerFails(err)
  \/ Deliver
  \/ \E resp \in StoreResponses : StoreAnswers(resp)
  \/ QueryApiAnswered
  \/ EventsApiAnswered
  \/ TrackWriteFinish

Spec == Init /\ [][Next]_vars

\* the event loop runs every callback that is ready; the remote store is
\* under no obligation to answer
FairSpec ==
  /\ Spec
  /\ WF_vars(Intercept)
  /\ WF_vars(Deliver)
  /\ WF_vars(QueryApiAnswered)
  /\ WF_vars(EventsApiAnswered)
  /\ WF_vars(TrackWriteFinish)

----------------------------------------------------------------------------
(* The local event log, called directly                                    *)

\* how many events the application tracks in one run
MaxAppends == 105
\* how many times DELETE posthog/events is called in one run
MaxClears == 1

pipelineVars ==
  <<request, pc, body, headers, handlerResult, outcome, delivered, task,
    details, lookup, previousCall, net, fetches>>

\* no request is passing through the interceptor
NO_REQUEST ==
  [method |-> "GET", path |-> "/posthog/events", body |-> Undef,
   headers |-> HEADERS_PLAIN, userId |-> "anonymous"]

LogEnvs ==
  [POSTHOG_API_KEY : {PLACEHOLDER_KEY, KEY_PLAIN},
   POSTHOG_PERSONAL_API_KEY : {<<>>},
   POSTHOG_PROJECT_ID : {<<>>}]

PipelineIdle ==
  /\ request = NO_REQUEST
  /\ pc = "idle"
  /\ body = Undef
  /\ headers = Undef
  /\ handlerResult = Nothing
  /\ outcome = Nothing
  /\ delivered = Nothing
  /\ task = "none"
  /\ details = NoDetails
  /\ lookup = "none"
  /\ previousCall = NoPrevious
  /\ net = Idle
  /\ fetches = <<>>

LogInit ==
  /\ env \in LogEnvs
  /\ PipelineIdle
  /\ captured = <<>>
  /\ eventLog = <<>>
  /\ logs = <<>>
  /\ inflight = <<>>
  /\ args = NoCall
  /\ result = NoCall
  /\ page = NoPage

Cleared == {i \in DOMAIN logs : logs[i] = "log:event-log-cleared"}

\* the application tracks the creation of its n-th item; the client takes
\* every event
TrackCall ==
  /\ \E n \in 1..MaxAppends :
       /\ n = Len(captured) + 1
       /\ track("anonymous", "item_created", Obj([item_id |-> Num(n)]), logs, FALSE)
       /\ args' = [fn |-> "track", n |-> n]
  /\ result' = [fn |-> "track"]
  /\ UNCHANGED <<inflight, env>>
  /\ UNCHANGED pipelineVars
  /\ UNCHANGED page

\* clearEventLog(), reached through DELETE posthog/events
ClearEventLog ==
  /\ Cardinality(Cleared) < MaxClears
  /\ eventLog' = <<>>
  /\ logs' = Append(logs, "log:event-log-cleared")
  /\ args' = [fn |-> "clearEvents"]
  /\ result' = [fn |-> "clearEvents", message |-> "Event log cleared successfully"]
  /\ UNCHANGED <<inflight, env, captured>>
  /\ UNCHANGED pipelineVars
  /\ UNCHANGED page

LogNext ==
  \/ TrackCall
  \/ ClearEventLog

LogSpec == LogInit /\ [][LogNext]_vars

\* a JavaScript number: an integer or NaN
NaN == [nan |-> TRUE]
Number(k) == [nan |-> FALSE, n |-> k]

Min(a, b) == IF a < b THEN a ELSE b
Max(a, b) == IF a > b THEN a ELSE b

\* Math.min(a, b)
MathMin(a, b) == IF a.nan \/ b.nan THEN NaN ELSE Number(Min(a.n, b.n))

DigitValue ==
  ("0" :> 0) @@ ("1" :> 1) @@ ("2" :> 2) @@ ("3" :> 3) @@ ("4" :> 4) @@
  ("5" :> 5) @@ ("6" :> 6) @@ ("7" :> 7) @@ ("8" :> 8) @@ ("9" :> 9)

\* the decimal digits of text from position i on, up to the first character
\* that is not a digit; acc is the value read so far, seen whether any digit
\* was read
RECURSIVE ParseDigits(_, _, _, _)
ParseDigits(text, i, acc, seen) ==
  IF i <= Len(text) /\ text[i] \in DOMAIN DigitValue
  THEN ParseDigits(text, i + 1, acc * 10 + DigitValue[text[i]], TRUE)
  ELSE [seen |-> seen, n |-> acc]

\* parseInt(text, 10)
ParseInt(text) ==
  LET signed == text # <<>> /\ text[1] \in {"-", "+"}
      d == ParseDigits(text, IF signed THEN 2 ELSE 1, 0, FALSE)
  IN IF ~d.seen THEN NaN
     ELSE IF signed /\ text[1] = "-" THEN Number(0 - d.n) ELSE Number(d.n)

\* the limit query parameter: absent, or its text
NoQuery == [given |-> FALSE]
Query(text) == [given |-> TRUE, text |-> text]

DEFAULT_LIMIT == 50
LIMIT_MAX == 100

\* limit ? Math.min(parseInt(limit, 10), 100) : 50
limitNum(limit) ==
  IF limit.given /\ limit.text # <<>>
  THEN MathMin(ParseInt(limit.text), Number(LIMIT_MAX))
  ELSE Number(DEFAULT_LIMIT)

\* Array.prototype.slice(start): NaN and -0 are read as 0, a negative start
\* counts from the end, and the start is kept within the array
Slice(seq, start) ==
  LET len == Len(seq)
      rel == IF start.nan THEN 0 ELSE start.n
      k == IF rel < 0 THEN Max(len + rel, 0) ELSE Min(rel, len)
  IN SubSeq(seq, k + 1, len)

Reverse(seq) == [i \in 1..Len(seq) |-> seq[Len(seq) + 1 - i]]

\* PosthogService.getRecentEvents(limit): eventLog.slice(-limit).reverse()
getRecentEvents(limit) ==
  Reverse(Slice(eventLog, IF limit.nan THEN NaN ELSE Number(0 - limit.n)))

LimitQueries ==
  {NoQuery, Query(<<>>), Query(<<"0">>), Query(<<"5">>), Query(<<"5","0">>),
   Query(<<"1","0","0">>), Query(<<"2","5","0">>), Query(<<"-","5">>),
   Query(<<"a","b","c">>)}

\* GET posthog/events?limit=...
GetRecentEvents ==
  /\ \E q \in LimitQueries :
       /\ args' = [fn |-> "getRecentEvents", limit |-> q]
       /\ LET events == getRecentEvents(limitNum(q))
          IN result' = [fn |-> "getRecentEvents", events |-> events,
                        count |-> Len(events)]
  /\ UNCHANGED <<inflight, env, captured, eventLog, logs>>
  /\ UNCHANGED pipelineVars
  /\ UNCHANGED page

EventsNext ==
  \/ TrackCall
  \/ GetRecentEvents

EventsSpec == LogInit /\ [][EventsNext]_vars

----------------------------------------------------------------------------
(* Several requests in flight                                              *)

\* how many requests pass through the interceptor at the same time
MaxInFlight == 3

\* how many entries the log holds when the requests arrive
ConcPrefill == {0, MAX_LOG_SIZE - 1}

CONC_ENV ==
  [POSTHOG_API_KEY |-> KEY_NUMERIC,
   POSTHOG_PERSONAL_API_KEY |-> KEY_PERSONAL,
   POSTHOG_PROJECT_ID |-> <<>>]

ConcUsers == <<"1", "2", "3", "4">>

\* what the handlers of these requests fail with
ConcErrors == {err \in HandlerErrors : err.status = 404}

\* the i-th request
ConcRequest(i) ==
  [method |-> "POST", path |-> "/items", body |-> BODY_ITEM,
   headers |-> HEADERS_PLAIN, userId |-> ConcUsers[i]]

\* what n earlier calls of track by the application have left behind
ItemEntry(k) ==
  [distinctId |-> "anonymous", eventName |-> "item_created",
   properties |-> Obj([item_id |-> Num(k)])]
ItemCapture(k) ==
  [distinctId |-> "anonymous", event |-> "item_created",
   properties |-> Obj([item_id |-> Num(k)])]

ConcInit ==
  /\ env = CONC_ENV
  /\ PipelineIdle
  /\ \E n \in ConcPrefill :
       /\ eventLog = [k \in 1..n |-> ItemEntry(k)]
       /\ captured = [k \in 1..n |-> ItemCapture(k)]
       /\ logs = [k \in 1..n |-> "log:event-sent"]
  /\ inflight = [i \in 1..MaxInFlight |-> "new"]
  /\ args = NoCall
  /\ result = NoCall
  /\ page = NoPage

\* request i: the handler returned; the tap next callback runs up to
\* await getPreviousCallFromPostHog, where it is suspended on its fetch
BeginWrite(i) ==
  /\ inflight[i] = "new"
  /\ LET start == LookupStart(env)
     IN /\ logs' = logs \o start.logs
        /\ fetches' = IF start.fetch
                      THEN Append(fetches, QueryApiRequest(start.req, ConcRequest(i).method,
                                                           ConcRequest(i).path))
                      ELSE fetches
  /\ inflight' = [inflight EXCEPT ![i] = "lookup"]
  /\ UNCHANGED <<args, result, env, captured, eventLog>>
  /\ UNCHANGED <<request, pc, body, headers, handlerResult, outcome, delivered,
                 task, details, lookup, previousCall, net>>
  /\ UNCHANGED page

\* request i: its lookup found no earlier call; the callback resumes and
\* runs to its end; the client takes every event
LookupReturns(i) ==
  /\ inflight[i] = "lookup"
  /\ LET req == ConcRequest(i)
         d == WriteDetails(req, Interceptor_sanitizeBody(req.body).v,
                           sanitizeResponse(RESP_ITEM).v)
         r == trackWriteProperties(d, NoPrevious)
         lg == Append(logs, "warn:no-previous-call")
     IN IF r.ok
        THEN track(d.userId, "api_write_request", r.v, lg, FALSE)
        ELSE /\ logs' = lg
             /\ UNCHANGED <<captured, eventLog>>
  /\ inflight' = [inflight EXCEPT ![i] = "done"]
  /\ UNCHANGED <<args, result, env>>
  /\ UNCHANGED pipelineVars
  /\ UNCHANGED page

\* request i: the handler failed; the tap error callback calls trackError
FailRequest(i) ==
  /\ inflight[i] = "new"
  /\ \E err \in ConcErrors :
       LET req == ConcRequest(i)
           d == ErrorDetailsOf(req, Interceptor_sanitizeBody(req.body).v,
                               Interceptor_sanitizeHeaders(req.headers), err)
           r == trackErrorProperties(env, d)
       IN IF r.ok
          THEN track(d.userId, "error_occurred", r.v, logs, FALSE)
          ELSE UNCHANGED <<captured, eventLog, logs>>
  /\ inflight' = [inflight EXCEPT ![i] = "done"]
  /\ UNCHANGED <<args, result, env>>
  /\ UNCHANGED pipelineVars
  /\ UNCHANGED page

ConcNext ==
  \/ \E i \in 1..MaxInFlight : BeginWrite(i)
  \/ \E i \in 1..MaxInFlight : LookupReturns(i)
  \/ \E i \in 1..MaxInFlight : FailRequest(i)
  \/ ClearEventLog

ConcSpec == ConcInit /\ [][ConcNext]_vars

----------------------------------------------------------------------------
(* The redactor and the differ, called directly                            *)

BodyKeys ==
  {"password", "Password", "PASSWORD", "token", "TOKEN", "secret", "Secret",
   "apiKey", "apikey", "APIKEY", "access_token", "Access_Token", "note"}

FieldValues ==
  {Str("secret123", 0), Str("", 0), Num(0), Num(1234), Bool(FALSE), Null, REDACTED}

\* serializes to exactly BODY_LIMIT characters
BODY_AT_LIMIT == Obj([blob |-> Str("", 989)])
\* serializes to BODY_LIMIT characters, and to more once its password is redacted
BODY_GROWS == Obj([password |-> Str("pw", 0), blob |-> Str("", 973)])
BODY_LIST == Arr(<<Num(1), Num(2)>>)

SanitizeBodyInputs ==
  {Undef, Null, BODY_ITEM, BODY_BIG, BODY_AT_LIMIT, BODY_GROWS, BODY_LIST}
  \cup {Obj((k :> v) @@ ("name" :> Str("x", 0))) : k \in BodyKeys, v \in FieldValues}

HeaderNames ==
  {"authorization", "Authorization", "cookie", "x-api-key", "X-Api-Key",
   "x-session-id", "accept"}

SanitizeHeadersInputs ==
  {Undef, Null, HEADERS_PLAIN}
  \cup {Obj((h :> v) @@ HEADERS_PLAIN.kv) : h \in HeaderNames, v \in {Str("Bearer abc", 0), REDACTED}}

\* serializes to exactly RESPONSE_LIMIT characters
RESP_AT_LIMIT == Obj([blob |-> Str("", 1989)])
RESP_LIST == Arr(<<RESP_ITEM, RESP_OLD>>)

SanitizeResponseInputs ==
  {Undef, Null, RESP_ITEM, RESP_BIG, RESP_AT_LIMIT, RESP_LIST}

PAIR_AB == Obj([a |-> Num(1), b |-> Num(2)])

DEEP_1 == Obj([outer |-> Obj([meta |-> PAIR_AB, n |-> Num(1)])])
DEEP_2 == Obj([outer |-> Obj([meta |-> Reordered(PAIR_AB), n |-> Num(2)])])

DiffValues ==
  {Undef, BODY_ITEM, BODY_OLD,
   Obj([name |-> Str("x", 0), tags |-> Arr(<<Num(1), Num(2)>>)]),
   Obj([name |-> Str("x", 0), tags |-> Arr(<<Num(1), Num(3)>>)]),
   Arr(<<Num(1), Num(2)>>),
   Arr(<<Num(1), Num(3)>>),
   Obj([meta |-> PAIR_AB]),
   Obj([meta |-> Reordered(PAIR_AB)]),
   Obj([meta |-> Obj([a |-> Num(1), b |-> Num(3)])]),
   Obj([rows |-> Arr(<<PAIR_AB>>)]),
   Obj([rows |-> Arr(<<Reordered(PAIR_AB)>>)]),
   Obj([meta |-> Num(5)]),
   Obj([meta |-> Null, rows |-> Arr(<<>>)]),
   DEEP_1, DEEP_2,
   Obj([outer |-> Obj([meta |-> Reordered(PAIR_AB), n |-> Num(1)])])}

\* a previous call as the lookup returns it
Previous(requestBody, responseBody) ==
  [found |-> TRUE, requestBody |-> requestBody, responseBody |-> responseBody,
   timestamp |-> NewDate("now"), eventId |-> "e0"]

CalculateChangesInputs ==
  {[fn |-> "calculateChanges", which |-> w, p |-> p, c |-> c] :
     w \in {"request", "response"}, p \in DiffValues, c \in DiffValues}

\* the request-body fields and request headers whose values are secrets
SecretFields == {"password", "token", "secret", "apiKey", "access_token"}
SecretHeaders == {"authorization", "cookie", "x-api-key", "x-session-id"}

BodyWith(f, v) == Obj((f :> Str(v, 0)) @@ ("name" :> Str("x", 0)))
HeadersWith(h, v) == Obj((h :> Str(v, 0)) @@ HEADERS_PLAIN.kv)

PostOf(b, h) ==
  [method |-> "POST", path |-> "/items", body |-> b, headers |-> h, userId |-> "7"]

\* two requests that differ in the value of one secret only, and the
\* previous call the lookup finds for them (or none)
TwoRuns ==
  UNION {
    {[fn |-> "pipeline", secret |-> f,
      req1 |-> PostOf(BodyWith(f, "A"), HEADERS_PLAIN),
      req2 |-> PostOf(BodyWith(f, "B"), HEADERS_PLAIN),
      previous |-> prev] :
       prev \in {NoPrevious, Previous(BodyWith(f, "[REDACTED]"), RESP_ITEM)}} :
    f \in SecretFields}
  \cup
  {[fn |-> "pipeline", secret |-> h,
    req1 |-> PostOf(BODY_ITEM, HeadersWith(h, "A")),
    req2 |-> PostOf(BODY_ITEM, HeadersWith(h, "B")),
    previous |-> prev] :
     h \in SecretHeaders,
     prev \in {NoPrevious, Previous(BODY_ITEM, RESP_ITEM)}}

\* details of a direct call of trackError, as a reporter outside the
\* interceptor would make it
TrackErrorInputs ==
  {[fn |-> "trackError",
    details |-> [errorName |-> n, errorMessage |-> "x is not a function",
                 errorStack |-> st, userId |-> "7", sessionId |-> sid,
                 errorType |-> "frontend_error",
                 context |-> [method |-> "GET", path |-> "/items",
                              requestBody |-> Undef, requestHeaders |-> Undef,
                              statusCode |-> 500]]] :
     n \in {"", "TypeError"},
     st \in {Undef, Str("TypeError: x is not a function", 0),
             Str("TypeError: x is not a function", 5000)},
     sid \in {"", "s1"}}

\* a request submitted twice, the handler answering both times the same
ResubmitInputs ==
  {[fn |-> "resubmit", req |-> PostOf(b, HEADERS_PLAIN), resp |-> v] :
     b \in {Undef, BODY_ITEM} \cup {BodyWith(f, "secret123") : f \in SecretFields},
     v \in {RESP_ITEM, RESP_BIG}}

PureInputs ==
  {[fn |-> "sanitizeBody", x |-> x] : x \in SanitizeBodyInputs}
  \cup {[fn |-> "sanitizeHeaders", x |-> x] : x \in SanitizeHeadersInputs}
  \cup {[fn |-> "sanitizeResponse", x |-> x] : x \in SanitizeResponseInputs}
  \cup CalculateChangesInputs
  \cup TwoRuns
  \cup TrackErrorInputs
  \cup ResubmitInputs

PureInit ==
  /\ env = CONC_ENV
  /\ PipelineIdle
  /\ captured = <<>>
  /\ eventLog = <<>>
  /\ logs = <<>>
  /\ inflight = <<>>
  /\ args \in PureInputs
  /\ result = NoCall
  /\ page = NoPage

\* f applied to what an earlier application returned; an exception of the
\* first application is the outcome of both
Again(once, twice) == IF once.ok THEN twice ELSE once

UnchangedButResult ==
  /\ UNCHANGED <<inflight, args, env, captured, eventLog, logs>>
  /\ UNCHANGED pipelineVars
  /\ UNCHANGED page

CallSanitizeBody ==
  /\ args.fn = "sanitizeBody"
  /\ result = NoCall
  /\ LET i == Interceptor_sanitizeBody(args.x)
         sv == Service_sanitizeBody(args.x)
     IN result' = [fn |-> "sanitizeBody",
                   interceptor |-> i,
                   interceptorTwice |-> Again(i, Interceptor_sanitizeBody(i.v)),
                   service |-> sv,
                   serviceTwice |-> Again(sv, Service_sanitizeBody(sv.v))]
  /\ UnchangedButResult

CallSanitizeHeaders ==
  /\ args.fn = "sanitizeHeaders"
  /\ result = NoCall
  /\ LET i == Interceptor_sanitizeHeaders(args.x)
         sv == Service_sanitizeHeaders(args.x)
     IN result' = [fn |-> "sanitizeHeaders",
                   interceptor |-> Ret(i),
                   interceptorTwice |-> Ret(Interceptor_sanitizeHeaders(i)),
                   service |-> Ret(sv),
                   serviceTwice |-> Ret(Service_sanitizeHeaders(sv))]
  /\ UnchangedButResult

CallSanitizeResponse ==
  /\ args.fn = "sanitizeResponse"
  /\ result = NoCall
  /\ LET r == sanitizeResponse(args.x)
     IN result' = [fn |-> "sanitizeResponse",
                   once |-> r,
                   twice |-> Again(r, sanitizeResponse(r.v))]
  /\ UnchangedButResult

CallCalculateChanges ==
  /\ args.fn = "calculateChanges"
  /\ result = NoCall
  /\ LET previous == IF args.which = "request" THEN Previous(args.p, RESP_ITEM)
                     ELSE Previous(BODY_ITEM, args.p)
         current == IF args.which = "request"
                    THEN [requestBody |-> args.c, responseBody |-> RESP_ITEM]
                    ELSE [requestBody |-> BODY_ITEM, responseBody |-> args.c]
     IN result' = [fn |-> "calculateChanges",
                   diff |-> deepDiff(args.p, args.c),
                   changes |-> calculateChanges(previous, current)]
  /\ UnchangedButResult

\* what the interceptor and the service hand to track() for a request whose
\* handler returns RESP_ITEM, the lookup having returned previous
EmittedWrite(req, previous) ==
  LET b == Interceptor_sanitizeBody(req.body)
      sr == sanitizeResponse(RESP_ITEM)
  IN IF ~b.ok THEN b
     ELSE IF ~sr.ok THEN sr
     ELSE trackWriteProperties(WriteDetails(req, b.v, sr.v), previous)

\* what they hand to track() for a request whose handler fails with err
EmittedError(req, err) ==
  LET b == Interceptor_sanitizeBody(req.body)
  IN IF ~b.ok THEN b
     ELSE trackErrorProperties(env,
            ErrorDetailsOf(req, b.v, Interceptor_sanitizeHeaders(req.headers), err))

RunPipelineTwice ==
  /\ args.fn = "pipeline"
  /\ result = NoCall
  /\ \E err \in ConcErrors :
       result' = [fn |-> "pipeline",
                  write1 |-> EmittedWrite(args.req1, args.previous),
                  write2 |-> EmittedWrite(args.req2, args.previous),
                  error1 |-> EmittedError(args.req1, err),
                  error2 |-> EmittedError(args.req2, err)]
  /\ UnchangedButResult

\* the row of the structured query's result for an event emitted with the
\* properties props: the store gives back what it was sent
StoredRow(props) ==
  [wrapped |-> FALSE,
   ev |-> StoreEvent(IF "request_body" \in DOMAIN props THEN props.request_body ELSE Undef,
                     IF "response_body" \in DOMAIN props THEN props.response_body ELSE Undef,
                     "2025-12-05T09:00:00Z", "2025-12-05T09:00:01Z", "e1")]

\* the properties of the two events of a request submitted twice: the
\* first finds no previous call, the second finds the first as stored
Resubmitted(req, resp) ==
  LET b == Interceptor_sanitizeBody(req.body)
      sr == sanitizeResponse(resp)
      Emitted(previous) ==
        IF ~b.ok THEN b
        ELSE IF ~sr.ok THEN sr
        ELSE trackWriteProperties(WriteDetails(req, b.v, sr.v), previous)
      first == Emitted(NoPrevious)
  IN [first |-> first,
      second |-> IF first.ok THEN Emitted(RecordFromQueryRow(StoredRow(first.v)))
                 ELSE first]

Resubmit ==
  /\ args.fn = "resubmit"
  /\ result = NoCall
  /\ result' = [fn |-> "resubmit", r |-> Resubmitted(args.req, args.resp)]
  /\ UnchangedButResult

\* trackError(details), called directly
CallTrackError ==
  /\ args.fn = "trackError"
  /\ result = NoCall
  /\ LET d == args.details
         r == trackErrorProperties(env, d)
     IN IF r.ok
        THEN /\ \E clientThrows \in BOOLEAN :
                  track(d.userId, "error_occurred", r.v,
                        IF d.sessionId # "" /\ getProjectId(env, ApiKeyOrPlaceholder(env)) = <<>>
                        THEN Append(logs, "warn:no-project-id-for-replay") ELSE logs,
                        clientThrows)
             /\ result' = [fn |-> "trackError", ok |-> TRUE]
        ELSE /\ result' = [fn |-> "trackError", ok |-> FALSE, e |-> r.e]
             /\ UNCHANGED <<captured, eventLog, logs>>
  /\ UNCHANGED <<inflight, args, env>>
  /\ UNCHANGED pipelineVars
  /\ UNCHANGED page

PureNext ==
  \/ CallSanitizeBody
  \/ CallSanitizeHeaders
  \/ CallSanitizeResponse
  \/ CallCalculateChanges
  \/ RunPipelineTwice
  \/ CallTrackError
  \/ Resubmit

PureSpec == PureInit /\ [][PureNext]_vars

----------------------------------------------------------------------------
(* The browser page: posthog-config.js, error-handler.js, api-interceptor.js *)
(* and main.js                                                               *)

\* how often setupApiInterceptor is called on one page
MaxSetups == 2
\* how many failures one page goes through
MaxFailures == 2

\* import.meta.env of the page, and what posthog-js offers once posthog.init
\* has run: a sessionRecording module or none, a session id or none
PageConfigs ==
  [VITE_POSTHOG_API_KEY : {<<>>, KEY_PLAIN, KEY_NUMERIC},
   VITE_POSTHOG_PROJECT_ID : {<<>>, PROJECT_42},
   sessionRecording : BOOLEAN,
   sessionId : ClientSessionIds]

\* the page before main.js has run
NewPage(cfg) ==
  [open |-> TRUE, cfg |-> cfg, mainRan |-> FALSE,
   initCalled |-> FALSE,          \* posthog.init has been called
   posthogInitialized |-> FALSE,  \* posthog-config.js: let posthogInitialized
   errorOccurred |-> FALSE,       \* posthog-config.js: let errorOccurred
   wrappers |-> 0,                \* how many wrappers are around window.fetch
   failures |-> 0,                \* failures that reached captureError
   events |-> 0,                  \* error_occurred events handed to posthog.capture
   triggered |-> FALSE,           \* an error was captured or recording was asked for
   lastFetch |-> NoCall,
   info |-> NoCall]

\* initPostHog(): posthog.init is called unless PostHog is initialized or
\* the key is missing
initPostHog(pg) ==
  IF pg.posthogInitialized \/ pg.cfg.VITE_POSTHOG_API_KEY = <<>> THEN pg
  ELSE [pg EXCEPT !.initCalled = TRUE]

\* posthog.sessionRecording
SessionRecordingOf(pg) == pg.initCalled /\ pg.cfg.sessionRecording

\* getSessionId(): posthog.get_session_id() || null ("" for null)
getSessionId(pg) == IF pg.initCalled THEN pg.cfg.sessionId ELSE ""

\* isRecording(): posthog._hasErrorOccurred exists once the loaded callback
\* has run
isRecording(pg) ==
  IF pg.posthogInitialized /\ pg.errorOccurred THEN TRUE
  ELSE SessionRecordingOf(pg) /\ pg.posthogInitialized

\* startSessionRecording(): the page after the call
startSessionRecording(pg) ==
  LET p1 == IF ~pg.posthogInitialized THEN initPostHog(pg) ELSE pg
  IN [p1 EXCEPT !.errorOccurred = TRUE]

\* getSessionReplayUrl(): the link, or Null without a session id
getSessionReplayUrl(pg) ==
  LET sessionId == getSessionId(pg)
      apiKey == pg.cfg.VITE_POSTHOG_API_KEY
      projectId ==
        IF pg.cfg.VITE_POSTHOG_PROJECT_ID # <<>> THEN pg.cfg.VITE_POSTHOG_PROJECT_ID
        ELSE IF MatchStarts(apiKey) # {}
             THEN LET i == CHOOSE j \in MatchStarts(apiKey) :
                             \A m \in MatchStarts(apiKey) : j <= m
                  IN RunFrom(apiKey, i + 4)
             ELSE <<>>
  IN IF sessionId = "" THEN Null
     ELSE IF projectId # <<>>
          THEN [t |-> "url", path |-> <<"project", projectId, "replay", sessionId>>]
          ELSE [t |-> "url", path |-> <<"replay", sessionId>>]

\* captureError(error, context).  getPostHog() returns the imported posthog
\* object, which is truthy, so the first statement executed is
\* `errorOccurred = true`; error-handler.js declares no such variable (the
\* one of posthog-config.js is not exported) and module code is strict, so
\* the assignment throws a ReferenceError and nothing after it runs
captureError(pg) == Throw("ReferenceError")

\* captureApiError(error, requestInfo)
captureApiError(pg) == captureError(pg)

\* window.fetch after n calls of setupApiInterceptor, the server answering
\* resp ("ok", "not_ok" or "network_error"): each wrapper sets its headers
\* and calls the fetch it found (originalFetch); a non-OK response is
\* reported inside the try block, and whatever is thrown there, by
\* originalFetch or by the report, is reported by the catch block, which
\* then throws the error it caught
RECURSIVE fetchThrough(_, _, _, _)
fetchThrough(n, optionHeaders, resp, pg) ==
  IF n = 0
  THEN [resp |-> resp,
        rejected |-> resp = "network_error",
        error |-> IF resp = "network_error" THEN "TypeError" ELSE "",
        ok |-> resp = "ok",
        sends |-> 1, reports |-> 0, headers |-> optionHeaders]
  ELSE LET h == wrappedFetchHeaders(optionHeaders, getSessionId(pg), "")
           inner == fetchThrough(n - 1, h, resp, pg)
           inTry == captureApiError(pg)
           inCatch == captureApiError(pg)
       IN IF inner.rejected
          THEN [inner EXCEPT !.reports = @ + 1,
                             !.error = IF inCatch.ok THEN @ ELSE inCatch.e]
          ELSE IF inner.ok THEN inner
          ELSE IF inTry.ok THEN [inner EXCEPT !.reports = @ + 1]
          ELSE [inner EXCEPT !.reports = @ + 2,
                             !.rejected = TRUE,
                             !.error = IF inCatch.ok THEN inTry.e ELSE inCatch.e]

UnchangedButPage ==
  /\ UNCHANGED <<env, captured, eventLog, logs, inflight, args, result>>
  /\ UNCHANGED pipelineVars

FrontInit ==
  /\ env = CONC_ENV
  /\ PipelineIdle
  /\ captured = <<>>
  /\ eventLog = <<>>
  /\ logs = <<>>
  /\ inflight = <<>>
  /\ args = NoCall
  /\ result = NoCall
  /\ page \in {NewPage(cfg) : cfg \in PageConfigs}

\* main.js: initErrorHandler(), which calls initPostHog(), then
\* setupApiInterceptor()
RunMain ==
  /\ ~page.mainRan
  /\ page' = [initPostHog(page) EXCEPT !.mainRan = TRUE, !.wrappers = 1]
  /\ UnchangedButPage

\* posthog-js calls the loaded callback of posthog.init
PostHogLoaded ==
  /\ page.initCalled
  /\ ~page.posthogInitialized
  /\ page' = [page EXCEPT !.posthogInitialized = TRUE]
  /\ UnchangedButPage

\* setupApiInterceptor() is called once more
SetupApiInterceptor ==
  /\ page.mainRan
  /\ page.wrappers < MaxSetups
  /\ page' = [page EXCEPT !.wrappers = @ + 1]
  /\ UnchangedButPage

\* the events captureError hands to posthog.capture: one if it returns
Captured(r) == IF r.ok THEN 1 ELSE 0

\* a script of the page fails: the listener of window's error event calls
\* captureError
WindowError ==
  /\ page.mainRan
  /\ page.failures < MaxFailures
  /\ page' = [page EXCEPT !.failures = @ + 1,
                          !.events = @ + Captured(captureError(page)),
                          !.triggered = TRUE]
  /\ UnchangedButPage

\* the page calls fetch(url) and the server answers resp
CallFetch(resp) ==
  /\ page.mainRan
  /\ page.failures < MaxFailures
  /\ LET f == fetchThrough(page.wrappers, Undef, resp, page)
     IN page' = [page EXCEPT !.lastFetch = f,
                             !.failures = IF resp = "ok" THEN @ ELSE @ + 1,
                             !.events = @ + f.reports * Captured(captureApiError(page)),
                             !.triggered = @ \/ resp # "ok"]
  /\ UnchangedButPage

\* reportCustomIssue(description)
ReportCustomIssue ==
  /\ page.mainRan
  /\ page.failures < MaxFailures
  /\ LET p1 == IF ~isRecording(page) THEN startSessionRecording(page) ELSE page
     IN page' = [p1 EXCEPT !.failures = @ + 1,
                           !.events = @ + Captured(captureError(p1)),
                           !.triggered = TRUE]
  /\ UnchangedButPage

\* startRecordingForIssue()
StartRecordingForIssue ==
  /\ page.mainRan
  /\ ~page.triggered
  /\ page' = [(IF ~isRecording(page) THEN startSessionRecording(page) ELSE page)
                EXCEPT !.triggered = TRUE]
  /\ UnchangedButPage

\* getSessionInfo()
GetSessionInfo ==
  /\ page.mainRan
  /\ page.info = NoCall
  /\ page' = [page EXCEPT !.info = [fn |-> "getSessionInfo",
                                    sessionId |-> getSessionId(page),
                                    replayUrl |-> getSessionReplayUrl(page),
                                    isRecording |-> isRecording(page)]]
  /\ UnchangedButPage

FrontNext ==
  \/ RunMain
  \/ PostHogLoaded
  \/ SetupApiInterceptor
  \/ WindowError
  \/ \E resp \in {"ok", "not_ok", "network_error"} : CallFetch(resp)
  \/ ReportCustomIssue
  \/ StartRecordingForIssue
  \/ GetSessionInfo

FrontSpec == FrontInit /\ [][FrontNext]_vars

----------------------------------------------------------------------------
(* Properties                                                              *)

WriteEvents == {i \in DOMAIN captured : captured[i].event = "api_write_request"}
ErrorEvents == {i \in DOMAIN captured : captured[i].event = "error_occurred"}
LoggedWriteEvents == {i \in DOMAIN eventLog : eventLog[i].eventName = "api_write_request"}
LoggedErrorEvents == {i \in DOMAIN eventLog : eventLog[i].eventName = "error_occurred"}

TaskFinished == task \in {"resolved", "rejected"}
HandlerSucceeded == handlerResult.kind = "value"

\* previous and current body differ, as values
BodiesDiffer(p, c) ==
  IF Truthy(p) /\ Truthy(c) THEN p # c ELSE Truthy(p) # Truthy(c)

DifferenceFound ==
  /\ previousCall.found
  /\ \/ BodiesDiffer(previousCall.requestBody, details.requestBody)
     \/ BodiesDiffer(previousCall.responseBody, details.responseBody)

\* C1: with the ingestion key configured, a POST/PUT/PATCH request whose
\* handler succeeded has, once its tracking task is over, exactly one
\* api_write_request event handed to the client and one in the event log,
\* and never more than one at any time.
C1_ExactlyOneWriteEvent ==
  (IngestionConfigured(env) /\ shouldTrack(request.method) /\ HandlerSucceeded)
    => /\ Cardinality(WriteEvents) <= 1
       /\ Cardinality(LoggedWriteEvents) <= 1
       /\ TaskFinished => (Cardinality(WriteEvents) = 1 /\ Cardinality(LoggedWriteEvents) = 1)

\* C2: when the request is over, the HTTP caller has received exactly what
\* the handler produced: its value, or its error with its status and message.
C2_CallerReceivesHandlerResult ==
  pc = "done" => (handlerResult # Nothing /\ delivered = handlerResult)

\* C3: a request that ended in an error response has exactly one
\* error_occurred event and no api_write_request event (stated for runs with
\* the ingestion key configured; without the key track() emits nothing).
C3_OneErrorEventPerFailure ==
  (IngestionConfigured(env) /\ pc = "done" /\ delivered.kind = "error")
    => /\ Cardinality(ErrorEvents) = 1
       /\ Cardinality(LoggedErrorEvents) = 1
       /\ WriteEvents = {}

\* C4: once the handler of a POST/PUT/PATCH request has succeeded, its value
\* is eventually delivered to the caller, whether or not the remote store
\* ever answers the previous-call lookup.
C4_ResponseNotDelayedByLookup ==
  (HandlerSucceeded /\ shouldTrack(request.method)) ~> (delivered = handlerResult)

\* the response has been delivered while the lookup is still in flight
C4_DeliveredDuringLookup ==
  /\ shouldTrack(request.method)
  /\ delivered.kind = "value"
  /\ task = "running"
  /\ net.st = "pending"

\* C5: a previous-call query the remote store does not answer is abandoned
\* after a bounded wait, and the api_write_request event is then emitted: a
\* query in flight leads to a state where it is no longer in flight or the
\* event has been emitted.
C5_UnansweredQueryAbandoned ==
  (IngestionConfigured(env) /\ net.st = "pending")
    ~> (net.st # "pending" \/ WriteEvents # {})

\* C6: whenever the lookup has resolved to null, trackWrite emits the event,
\* with is_first_call = true and no previous_call / previous_* property
\* (stated for runs with the ingestion key configured).
C6_NullLookupStillEmits ==
  (IngestionConfigured(env) /\ TaskFinished /\ lookup = "settled" /\ ~previousCall.found)
    => /\ Cardinality(WriteEvents) = 1
       /\ \A i \in WriteEvents :
            LET p == captured[i].properties
            IN /\ p["is_first_call"] = Bool(TRUE)
               /\ DOMAIN p \cap {"previous_call", "previous_request_body",
                                 "previous_response_body", "previous_timestamp",
                                 "previous_event_id"} = {}

\* C7: the promise of the async tap next callback never rejects.
C7_TaskNeverRejects == task # "rejected"

\* C8: when the answer of the structured query (tier A) is a non-2xx status
\* or a malformed body, the lookup goes on to query the list endpoint
\* (tier B) before it returns.
C8_FallbackToListEndpoint ==
  [][(/\ net.st = "answered"
      /\ net.tier = "A"
      /\ net.resp.kind \in {"not_ok", "malformed"}
      /\ net' # net)
     => (net'.st = "pending" /\ net'.tier = "B")]_vars

\* C9: in every emitted api_write_request event is_first_call is true
\* exactly when no previous record was retrieved, previous_call is present
\* exactly when one was, and changes is present exactly when the previous
\* and current bodies differ.
C9_FirstCallAndChangesConsistent ==
  \A i \in WriteEvents :
    LET p == captured[i].properties
    IN /\ p["is_first_call"] = Bool(~previousCall.found)
       /\ ("previous_call" \in DOMAIN p) <=> previousCall.found
       /\ ("changes" \in DOMAIN p) <=> DifferenceFound

\* an event for a resubmission: a previous record, no difference
C9_ResubmissionEmitted ==
  /\ WriteEvents # {}
  /\ previousCall.found
  /\ ~DifferenceFound
  /\ \A i \in WriteEvents : captured[i].properties["is_first_call"] = Bool(FALSE)

\* the description calculateChanges is to give for one body
ExpectedText(p, c, what) ==
  IF Truthy(p) /\ Truthy(c)
  THEN (IF p # c THEN <<what \o " body changed">> ELSE <<>>)
  ELSE IF Truthy(c) THEN <<what \o " body added">>
  ELSE IF Truthy(p) THEN <<what \o " body removed">>
  ELSE <<>>

ExpectedSummary ==
  IF ~previousCall.found THEN "First call to this endpoint"
  ELSE LET l == ExpectedText(previousCall.requestBody, details.requestBody, "Request")
                \o ExpectedText(previousCall.responseBody, details.responseBody, "Response")
       IN IF l = <<>> THEN "No changes detected" ELSE JoinSemi(l)

\* C10: every emitted api_write_request event carries change_summary: "First
\* call to this endpoint" without a previous record, "No changes detected"
\* with a previous record and no difference, else the "; "-joined
\* descriptions of the request-body and response-body changes.
C10_SummaryInEveryEvent ==
  \A i \in WriteEvents :
    LET p == captured[i].properties
    IN /\ "change_summary" \in DOMAIN p
       /\ p["change_summary"] = Str(ExpectedSummary, 0)

\* ---- C11 ----
Logged(c) ==
  [distinctId |-> c.distinctId, eventName |-> c.event, properties |-> c.properties]

LastClear == IF Cleared = {} THEN 0 ELSE CHOOSE i \in Cleared : \A j \in Cleared : j <= i

\* how many entries track has appended since the last clear
AppendedSinceClear ==
  LET from == LastClear + 1
  IN Cardinality({i \in from..Len(logs) : logs[i] = "log:event-sent"})

\* the last k of the entries handed to track, oldest first
LastAppended(k) == [i \in 1..k |-> Logged(captured[Len(captured) - k + i])]

\* C11: after any sequence of track and clearEventLog calls the log holds
\* at most MAX_LOG_SIZE entries, and they are exactly the last
\* min(n, MAX_LOG_SIZE) entries appended since the last clear, oldest first
C11_LogIsLastAppended ==
  /\ Len(eventLog) <= MAX_LOG_SIZE
  /\ eventLog = LastAppended(Min(AppendedSinceClear, MAX_LOG_SIZE))

\* two entries, a clear, then capacity + 3 entries: the 3 oldest of those
\* are gone and the log starts at the sixth item
C11_OldestEvictedAfterClear ==
  /\ LastClear = 3
  /\ AppendedSinceClear = MAX_LOG_SIZE + 3
  /\ Len(eventLog) = MAX_LOG_SIZE
  /\ eventLog[1].properties = Obj([item_id |-> Num(6)])


\* ---- C12 ----
\* the limit a request asks for, when its text is a number
Requested == ParseInt(args.limit.text)

\* C12: GET posthog/events returns the newest entries first and clamps the
\* limit to [0, MAX_LOG_SIZE]: exactly min(clamp(limit), log size) entries,
\* none for a limit of 0, DEFAULT_LIMIT at most when no limit is given, and
\* for a text that is not a number no more than the capacity
C12_LimitClamped ==
  result.fn = "getRecentEvents" =>
    /\ result.events = SubSeq(Reverse(eventLog), 1, Len(result.events))
    /\ IF ~args.limit.given \/ args.limit.text = <<>>
       THEN Len(result.events) = Min(DEFAULT_LIMIT, Len(eventLog))
       ELSE IF Requested.nan
       THEN Len(result.events) <= MAX_LOG_SIZE
       ELSE Len(result.events) =
              Min(Max(0, Min(Requested.n, MAX_LOG_SIZE)), Len(eventLog))


\* ---- C13 ----
Configured == IngestionConfigured(env)

\* the calls of track made for request i, by their place in execution order
TrackedFor(i) == {k \in DOMAIN captured : captured[k].distinctId = ConcUsers[i]}

\* C13: for any interleaving of requests in flight with each other and with
\* clearEventLog, every request that has finished made exactly one call of
\* track and no other request made any, and the log is the last
\* min(n, MAX_LOG_SIZE) entries tracked since the last clear, in the order in
\* which the calls of track ran
C13_ConcurrentAppendsKeepOrder ==
  /\ \A i \in DOMAIN inflight :
       Cardinality(TrackedFor(i)) = IF inflight[i] = "done" /\ Configured THEN 1 ELSE 0
  /\ Len(eventLog) <= MAX_LOG_SIZE
  /\ LET n == Min(AppendedSinceClear, MAX_LOG_SIZE)
     IN \A k \in 1..n : eventLog[k] = Logged(captured[Len(captured) - n + k])
  /\ Len(eventLog) = Min(AppendedSinceClear, MAX_LOG_SIZE)

\* a request that failed while another was suspended at its lookup, whose
\* entry came later and pushed the oldest entries out of a full log
C13_EvictionAcrossRequests ==
  /\ \A i \in DOMAIN inflight : inflight[i] = "done"
  /\ Cleared = {}
  /\ Len(captured) > MAX_LOG_SIZE
  /\ Len(eventLog) = MAX_LOG_SIZE
  /\ \E j, k \in DOMAIN eventLog :
       /\ j < k
       /\ eventLog[j].eventName = "error_occurred"
       /\ eventLog[k].eventName = "api_write_request"
       /\ eventLog[j].distinctId = ConcUsers[2]
       /\ eventLog[k].distinctId = ConcUsers[1]


\* ---- C14 ----
WriteMethods == {"POST", "PUT", "PATCH"}

SanitizeBodyResults == {result.interceptor, result.service}

\* the marker the response sanitizer builds for a response that is too long
IsTruncationMarker(v, size) ==
  /\ v.t = "obj"
  /\ DOMAIN v.kv = {"_truncated", "_size", "preview"}
  /\ v.kv["_truncated"] = Bool(TRUE)
  /\ v.kv["_size"] = Num(size)

\* C15: the sanitizers never throw; null or absent input gives null, an
\* object within the limit keeps its content, and a response beyond
\* RESPONSE_LIMIT gives the marker with the truncated flag, the size and a
\* preview
C15_SanitizersTotal ==
  /\ result.fn = "sanitizeBody" =>
       \A r \in SanitizeBodyResults :
         /\ r.ok
         /\ ~Truthy(args.x) => r.v = Null
         /\ (args.x.t = "obj" /\ JLen(args.x) <= BODY_LIMIT) => DOMAIN r.v.kv = DOMAIN args.x.kv
  /\ result.fn = "sanitizeHeaders" =>
       /\ result.interceptor.ok /\ result.service.ok
       /\ ~Truthy(args.x) => result.service.v = Null
  /\ result.fn = "sanitizeResponse" =>
       /\ result.once.ok
       /\ ~Truthy(args.x) => result.once.v = Null
       /\ (Truthy(args.x) /\ JLen(args.x) <= RESPONSE_LIMIT) => result.once.v = args.x
       /\ (Truthy(args.x) /\ JLen(args.x) > RESPONSE_LIMIT) =>
            IsTruncationMarker(result.once.v, JLen(args.x))

\* ---- C16 ----
\* the sensitive field names, in lower case
SensitiveLower == {"password", "token", "secret", "apikey", "access_token"}

RedactedAsClaimed(x, r) ==
  /\ r.v.t = "obj"
  /\ DOMAIN r.v.kv = DOMAIN x.kv
  /\ \A k \in DOMAIN x.kv :
       r.v.kv[k] = IF ToLowerCase(k) \in SensitiveLower THEN REDACTED ELSE x.kv[k]

\* C16: whenever sanitizeBody returns, every field whose key is, ignoring
\* case, one of the sensitive names holds '[REDACTED]' whatever it held
\* before, and every other field holds what it held before
C16_SensitiveFieldsRedacted ==
  (result.fn = "sanitizeBody" /\ args.x.t = "obj") =>
    \A r \in SanitizeBodyResults : r.ok => RedactedAsClaimed(args.x, r)

\* ---- C17 ----
\* C17: two requests that differ only in the value of one secret body field
\* or secret header give the same api_write_request properties and the same
\* error_occurred properties
C17_SecretsNeverEmitted ==
  result.fn = "pipeline" =>
    /\ result.write1 = result.write2
    /\ result.error1 = result.error2

\* ---- C18 ----
\* C18: each sanitizer returns for every payload, and applied to what it
\* returned it returns the same again
C18_SanitizeIdempotent ==
  /\ result.fn \in {"sanitizeBody", "sanitizeHeaders"} =>
       /\ result.interceptor.ok /\ result.interceptorTwice = result.interceptor
       /\ result.service.ok /\ result.serviceTwice = result.service
  /\ result.fn = "sanitizeResponse" =>
       /\ result.once.ok /\ result.twice = result.once

\* ---- C19 ----
\* a and b are the same JSON value: the same keys with the same values in
\* objects, whatever the order the keys are written in, and the same
\* elements in the same places in arrays
RECURSIVE SameValue(_, _)
SameValue(a, b) ==
  IF a.t # b.t THEN FALSE
  ELSE IF a.t = "obj"
  THEN /\ DOMAIN a.kv = DOMAIN b.kv
       /\ \A k \in DOMAIN a.kv : SameValue(a.kv[k], b.kv[k])
  ELSE IF a.t = "arr"
  THEN /\ Len(a.el) = Len(b.el)
       /\ \A i \in DOMAIN a.el : SameValue(a.el[i], b.el[i])
  ELSE a = b

\* C19: the diff of two bodies with the same keys and equal values is
\* empty, and calculateChanges then reports no changes
C19_EqualValuesNoDiff ==
  (result.fn = "calculateChanges" /\ SameValue(args.p, args.c)) =>
    /\ result.diff = EmptyObj
    /\ ~result.changes.hasChanges
    /\ result.changes.summary = "No changes detected"

\* ---- C20 ----
Changed(p, c) == Obj([previous |-> p, current |-> c])

DifferingArrays(p, c) == p.t = "arr" /\ c.t = "arr" /\ ~SameValue(p, c)

ComparedBody == IF args.which = "request" THEN "request_body" ELSE "response_body"

\* C20: two arrays that differ are reported as one Changed node holding both
\* arrays, under a key of the bodies and when the bodies themselves are
\* arrays
C20_ArraysAtomic ==
  result.fn = "calculateChanges" =>
    /\ \A k \in Keys(args.p) \cap Keys(args.c) :
         (args.p.t = "obj" /\ args.c.t = "obj"
            /\ DifferingArrays(Get(args.p, k), Get(args.c, k))) =>
           /\ k \in DOMAIN result.diff.kv
           /\ result.diff.kv[k] = Changed(Get(args.p, k), Get(args.c, k))
    /\ DifferingArrays(args.p, args.c) =>
         /\ ComparedBody \in DOMAIN result.changes.changes.kv
         /\ result.changes.changes.kv[ComparedBody] = Changed(args.p, args.c)


\* ---- C21 ----
Added(c) == Obj([added |-> c])
Removed(p) == Obj([removed |-> p])

\* the keys of p and c under which the two hold different values
DifferingKeys(p, c) ==
  {k \in Keys(p) \cup Keys(c) : ~SameValue(Get(p, k), Get(c, k))}

\* the node the claim gives key k in the diff of p and c
Classified(p, c, k) ==
  IF k \notin Keys(p) THEN Added(Get(c, k))
  ELSE IF k \notin Keys(c) THEN Removed(Get(p, k))
  ELSE IF IsPlainObject(Get(p, k)) /\ IsPlainObject(Get(c, k))
  THEN deepDiff(Get(p, k), Get(c, k))
  ELSE Changed(Get(p, k), Get(c, k))

\* C21: for objects p and c the keys of deepDiff(p, c) are exactly the keys
\* whose values differ, each one Added, Removed, a nested diff or Changed
\* according to where the key is present and what it holds; the bodies
\* {name: 'Old Item'} and {name: 'New Item'} give {name: Changed} and the
\* summary 'Request body changed'
C21_DiffClassifiesKeys ==
  (result.fn = "calculateChanges" /\ args.p.t = "obj" /\ args.c.t = "obj") =>
    /\ DOMAIN result.diff.kv = DifferingKeys(args.p, args.c)
    /\ \A k \in DOMAIN result.diff.kv :
         result.diff.kv[k] = Classified(args.p, args.c, k)
    /\ (args.p = BODY_OLD /\ args.c = BODY_ITEM /\ args.which = "request") =>
         /\ result.diff = Obj([name |-> Changed(Str("Old Item", 0), Str("New Item", 0))])
         /\ result.changes.summary = "Request body changed"


\* ---- C22 ----
IsLeafNode(n) ==
  DOMAIN n.kv \in {{"added"}, {"removed"}, {"previous", "current"}}

\* every node of the diff d is a leaf or a nested diff with entries, and so
\* on below it
RECURSIVE NoEmptyNode(_)
NoEmptyNode(d) ==
  \A k \in DOMAIN d.kv :
    LET n == d.kv[k]
    IN /\ n.t = "obj"
       /\ DOMAIN n.kv # {}
       /\ IsLeafNode(n) \/ NoEmptyNode(n)

\* C22: no diff holds an empty nested node at any depth, and changes has an
\* entry for a body only when that body's diff has entries
C22_NoEmptyNestedNode ==
  result.fn = "calculateChanges" =>
    /\ NoEmptyNode(result.diff)
    /\ NoEmptyNode(result.changes.changes)
    /\ (Truthy(args.p) /\ Truthy(args.c)) =>
         (ComparedBody \in DOMAIN result.changes.changes.kv <=> result.diff # EmptyObj)
    /\ DOMAIN result.changes.changes.kv \subseteq {ComparedBody}

\* two bodies whose only difference two levels down is the order of the keys
\* of an object, next to a number that changed
C22_EmptyNestedDiffDropped ==
  /\ result.fn = "calculateChanges"
  /\ args.p = DEEP_1
  /\ args.c = DEEP_2
  /\ result.diff = Obj([outer |-> Obj([n |-> Changed(Num(1), Num(2))])])


\* ---- C23 ----
\* the project the configuration names: POSTHOG_PROJECT_ID, or the digits
\* after phc_ in the ingestion key
ConfiguredProject ==
  IF env.POSTHOG_PROJECT_ID # <<>> THEN env.POSTHOG_PROJECT_ID
  ELSE IF env.POSTHOG_API_KEY = KEY_NUMERIC THEN <<"4", "2">>
  ELSE <<>>

RequestSessionId ==
  IF "x-session-id" \in DOMAIN request.headers.kv
  THEN request.headers.kv["x-session-id"].s ELSE ""

StackLength(stack) == Len(stack.s) + stack.pad

\* C24: every error_occurred event handed to the client has a name (Error
\* when the failure had none) and, if it has a stack, one of at most 1000
\* characters
C24_ErrorEventsNormalized ==
  \A i \in ErrorEvents :
    LET props == captured[i].properties
    IN /\ props.error_name # Str("", 0)
       /\ (args.fn = "trackError" /\ args.details.errorName = "") =>
            props.error_name = Str("Error", 0)
       /\ "error_stack" \in DOMAIN props => StackLength(props.error_stack) <= 1000


\* ---- C25 ----
\* the key the lookup queries with
QueryKey ==
  IF env.POSTHOG_PERSONAL_API_KEY # <<>> THEN env.POSTHOG_PERSONAL_API_KEY
  ELSE env.POSTHOG_API_KEY

\* the project a key stands for: the configured one, else the digits that
\* follow phc_ in the key, else none
ProjectOf(key) ==
  IF env.POSTHOG_PROJECT_ID # <<>> THEN env.POSTHOG_PROJECT_ID
  ELSE IF key = KEY_NUMERIC THEN <<"4", "2">>
  ELSE <<>>

QueryKeyUsable == QueryKey # <<>> /\ QueryKey # PLACEHOLDER_KEY

\* C25: getProjectId gives the configured project, else the segment of the
\* key if it is all digits, else null; every request names that project,
\* and when there is none the lookup sends no request and returns null
\* after a warning
C25_ProjectNeverGuessed ==
  /\ \A key \in {env.POSTHOG_API_KEY, env.POSTHOG_PERSONAL_API_KEY, PLACEHOLDER_KEY} :
       getProjectId(env, key) = ProjectOf(key)
  /\ \A i \in DOMAIN fetches : fetches[i].projectId = ProjectOf(QueryKey)
  /\ (details.started /\ QueryKeyUsable /\ ProjectOf(QueryKey) = <<>>) =>
       /\ fetches = <<>>
       /\ net = Idle
       /\ lookup = "settled"
       /\ previousCall = NoPrevious
       /\ \E j \in DOMAIN logs : logs[j] = "warn:no-project-id"

\* a write was tracked with a key that names no project: nothing was asked
\* of the store and the event says first call
C25_LookupSkippedWithoutProject ==
  /\ env.POSTHOG_API_KEY = KEY_PLAIN
  /\ env.POSTHOG_PROJECT_ID = <<>>
  /\ fetches = <<>>
  /\ \E i \in WriteEvents : captured[i].properties.is_first_call = Bool(TRUE)


\* ---- C26 ----
DegradedWarned == \E j \in DOMAIN logs : logs[j] = "warn:project-key-for-query"

\* C26: every request of either tier carries the personal key when one is
\* configured and the ingestion key only when none is, the degraded-mode
\* warning being logged by the time the first request leaves; with no key,
\* or only the placeholder, no request is sent
C26_QueryCredentialPrecedence ==
  /\ \A i \in DOMAIN fetches :
       /\ fetches[i].tier \in {"A", "B"}
       /\ fetches[i].auth = QueryKey
       /\ env.POSTHOG_PERSONAL_API_KEY = <<>> => DegradedWarned
  /\ env.POSTHOG_PERSONAL_API_KEY # <<>> => ~DegradedWarned
  /\ ~QueryKeyUsable => fetches = <<>>

\* both tiers were asked while both keys were configured
C26_BothTiersWithPersonalKey ==
  /\ env.POSTHOG_PERSONAL_API_KEY = KEY_PERSONAL
  /\ env.POSTHOG_API_KEY = KEY_NUMERIC
  /\ Len(fetches) = 2
  /\ fetches[2].tier = "B"
  /\ fetches[2].auth = KEY_PERSONAL


\* ---- C27 ----
\* C27: when the lookup falls back, tier B's query selects from any store
\* the record tier A's query selects: the most recent api_write_request
\* with the request's method and path
C27_TiersFilterEquivalently ==
  Len(fetches) = 2 =>
    \A store \in StoreContents :
      SelectedByEventsApi(store, fetches[2].query) =
        SelectedByQueryApi(store, fetches[1].query)


\* ---- C28 ----
CaptureFailed == \E j \in DOMAIN logs : logs[j] = "error:capture-failed"

\* C28: when client.capture throws, track logs the failure and returns
\* normally: the capture was attempted once and not again, the event is in
\* the local log all the same, the tracking task is not rejected and a
\* failed handler's error is the one notified
C28_CaptureFailureTolerated ==
  /\ Len(captured) <= 1
  /\ Len(eventLog) = Len(captured)
  /\ \A i \in DOMAIN captured :
       /\ eventLog[i].eventName = captured[i].event
       /\ eventLog[i].distinctId = captured[i].distinctId
       /\ eventLog[i].properties = captured[i].properties
  /\ CaptureFailed =>
       /\ Len(captured) = 1
       /\ task # "rejected"
       /\ captured[1].event = "api_write_request" => task = "resolved"
       /\ captured[1].event = "error_occurred" => outcome = handlerResult

\* the capture of a write event threw, and the event is in the local log
C28_FailedCaptureStillLogged ==
  /\ CaptureFailed
  /\ task = "resolved"
  /\ Len(eventLog) = 1
  /\ eventLog[1].eventName = "api_write_request"


\* ---- C29 ----
\* C29: with the ingestion key unset or the placeholder, tracking a write
\* or an error hands nothing to the client, appends nothing to the local
\* log and changes nothing else: no request leaves for the store and
\* nothing is logged
C29_EmissionDisabledWithoutKey ==
  ~IngestionConfigured(env) =>
    /\ captured = <<>>
    /\ eventLog = <<>>
    /\ fetches = <<>>
    /\ net = Idle
    /\ logs = <<>>


\* ---- C30 ----
\* the same call with a session id
WithSession(d) == [d EXCEPT !.sessionId = "s1"]

\* C30: an emitted api_write_request or error_occurred event carries
\* $session_id, equal to the request's x-session-id header, iff the request
\* has that header; a request without it fails nowhere a request with it
\* succeeds; and the wrapped fetch of the browser sends x-session-id, equal
\* to the session id, iff there is a session id
C30_SessionIdForwarded ==
  /\ \A i \in WriteEvents \cup ErrorEvents :
       LET props == captured[i].properties
       IN /\ "$session_id" \in DOMAIN props <=> RequestSessionId # ""
          /\ RequestSessionId # "" => props["$session_id"] = Str(RequestSessionId, 0)
  /\ (details.started /\ RequestSessionId = "") =>
       (trackWriteProperties(WithSession(details), previousCall).ok
          => trackWriteProperties(details, previousCall).ok)
  /\ (handlerResult.kind = "error" /\ RequestSessionId = "") =>
       (trackErrorProperties(env, WithSession(ErrorDetails(handlerResult.e))).ok
          => trackErrorProperties(env, ErrorDetails(handlerResult.e)).ok)
  /\ \A h \in ClientOptionHeaders, sid \in ClientSessionIds, a \in ClientAuthorizations :
       LET sent == wrappedFetchHeaders(h, sid, a)
       IN /\ "x-session-id" \in DOMAIN sent.kv <=> sid # ""
          /\ sid # "" => sent.kv["x-session-id"] = Str(sid, 0)
  /\ request.headers = wrappedFetchHeaders(HEADERS_PLAIN, RequestSessionId, "")

\* a write event of session s1, as the browser sent it
C30_WriteEventOfSession ==
  /\ request.headers = wrappedFetchHeaders(HEADERS_PLAIN, "s1", "")
  /\ \E i \in WriteEvents :
       /\ "$session_id" \in DOMAIN captured[i].properties
       /\ captured[i].properties["$session_id"] = Str("s1", 0)


\* ---- C34 ----
TierAAnswered == net.st = "answered" /\ net.tier = "A"

\* C34: within one lookup the first request goes to tier A and a second,
\* if any, to tier B, each at most once; tier B is requested only in the
\* step that receives a non-success response of tier A; and when tier A
\* answers with a parsed body the lookup ends there, without a request to
\* tier B, returning the record of its first result or null
C34_TiersInOrderWithoutRetry ==
  /\ [][fetches' # fetches =>
          \/ /\ fetches = <<>>
             /\ Len(fetches') = 1
             /\ fetches'[1].tier = "A"
          \/ /\ Len(fetches) = 1
             /\ fetches' = Append(fetches, fetches'[2])
             /\ fetches'[2].tier = "B"
             /\ TierAAnswered
             /\ net.resp.kind = "not_ok"]_vars
  /\ [][(TierAAnswered /\ net.resp.kind = "json" /\ net' # net) =>
          /\ fetches' = fetches
          /\ net' = Idle
          /\ lookup' = "settled"
          /\ previousCall' =
               IF net.resp.data.fmt = "results" /\ Len(net.resp.data.list) > 0
               THEN RecordFromQueryRow(net.resp.data.list[1])
               ELSE NoPrevious]_vars

\* tier A answered with zero results and the lookup ended with that
C34_EmptyAnswerEndsLookup ==
  /\ Len(fetches) = 1
  /\ lookup = "settled"
  /\ previousCall = NoPrevious
  /\ \E j \in DOMAIN logs : logs[j] = "warn:no-events"


C35_ResubmissionYieldsNoDiff ==
  (result.fn = "resubmit" /\ result.r.first.ok) =>
    /\ result.r.second.ok
    /\ result.r.second.v.is_first_call = Bool(FALSE)
    /\ "changes" \notin DOMAIN result.r.second.v


\* ---- C31 ----
\* C31: on the page every failure that reaches the error handler has
\* produced exactly one error_occurred event
C31_OneEventPerFailure ==
  page.open => page.events = page.failures

\* ---- C32 ----
\* C32: once main.js has run, isRecording() is true exactly when an error
\* has been captured or recording has been asked for, so it is false
\* before, also after PostHog has loaded
C32_RecordingOnlyAfterError ==
  (page.open /\ page.mainRan) => (isRecording(page) <=> page.triggered)

\* ---- C33 ----
\* C33: however often setupApiInterceptor has been called, a fetch reaches
\* the network once, carries x-session-id exactly when there is a session
\* id, and a failed request is reported as an API error exactly once
C33_SetupIsIdempotent ==
  (page.open /\ page.lastFetch # NoCall) =>
    LET f == page.lastFetch
    IN /\ f.sends = 1
       /\ IF getSessionId(page) # ""
          THEN f.headers.kv["x-session-id"] = Str(getSessionId(page), 0)
          ELSE f.headers = EmptyObj
       /\ f.resp # "ok" => f.reports = 1

\* ---- C37 ----
\* C37: the wrapped fetch settles as the fetch it wraps: it resolves when
\* the server answered, with an OK status or not, and rejects with the
\* network error when there was one; and it calls captureApiError at most
\* once
C37_WrappedFetchTransparent ==
  (page.open /\ page.lastFetch # NoCall) =>
    LET f == page.lastFetch
    IN /\ f.resp = "network_error" => (f.rejected /\ f.error = "TypeError")
       /\ f.resp # "network_error" => ~f.rejected
       /\ f.ok <=> f.resp = "ok"
       /\ f.reports <= 1

\* ---- C38 ----
\* the backend configured as the page is
BackendEnvOf(cfg) ==
  [POSTHOG_API_KEY |-> cfg.VITE_POSTHOG_API_KEY,
   POSTHOG_PERSONAL_API_KEY |-> <<>>,
   POSTHOG_PROJECT_ID |-> cfg.VITE_POSTHOG_PROJECT_ID]

\* C38: for the same key, project setting and session id, the link
\* getSessionReplayUrl gives on the page is the link trackError puts into
\* session_replay_url
C38_SameReplayUrlBothSides ==
  (page.open /\ page.info # NoCall /\ page.info.sessionId # "") =>
    LET e == BackendEnvOf(page.cfg)
    IN page.info.replayUrl
         = ReplayUrl(getProjectId(e, ApiKeyOrPlaceholder(e)), page.info.sessionId)


====
